---- MODULE Spec2Model ----
(***************************************************************************)
(* PatraSaar RAG pipeline: document ingestion, vector index and query.     *)
(*                                                                         *)
(* A text is a sequence of characters; a character is a one-element string *)
(* ("a", " ", "\n", ...).  Two non-ASCII characters of the source are      *)
(* named: "EN" is the en dash U+2013 and "EL" the ellipsis U+2026.         *)
(***************************************************************************)
EXTENDS Integers, Sequences, FiniteSets, TLC

\* ------------------------------------------------------------------------
\* Bounds of the model (not program constants)
\* ------------------------------------------------------------------------
MaxIngest == 2
MaxQuery == 1
MaxDelete == 1
MaxDeleteIngest == 1
MaxFaults == 1
MaxScore == 2
MaxContentLen == 205
MaxDim == 2
MaxLines == 3
MaxSentences == 6

\* ------------------------------------------------------------------------
\* Program constants
\* ------------------------------------------------------------------------
maxChunkSize == 500
chunkOverlap == 50
PreviewLimit == 200
DefaultTopK == 5
SummaryLimit == 8000

\* ------------------------------------------------------------------------
\* Characters and strings
\* ------------------------------------------------------------------------
\* the element of a one-element set; a value is computed once and named by
\* The({body : x \in {value}})
The(S) == CHOOSE x \in S : TRUE

Min(a, b) == IF a < b THEN a ELSE b

Max(a, b) == IF a > b THEN a ELSE b

UpperChars == <<"A", "B", "C", "D", "E", "F", "G", "H", "I", "J", "K", "L", "M",
                "N", "O", "P", "Q", "R", "S", "T", "U", "V", "W", "X", "Y", "Z">>

LowerChars == <<"a", "b", "c", "d", "e", "f", "g", "h", "i", "j", "k", "l", "m",
                "n", "o", "p", "q", "r", "s", "t", "u", "v", "w", "x", "y", "z">>

UpperSet == {UpperChars[i] : i \in 1..26}

LowerSet == {LowerChars[i] : i \in 1..26}

DigitSet == {"0", "1", "2", "3", "4", "5", "6", "7", "8", "9"}

SpaceSet == {" ", "\n", "\t"}

IsUpper(c) == c \in UpperSet

IsLower(c) == c \in LowerSet

IsDigit(c) == c \in DigitSet

\* String.prototype.toLowerCase on one character
ToLower(c) ==
    IF c \in UpperSet
    THEN LowerChars[CHOOSE i \in 1..26 : UpperChars[i] = c]
    ELSE c

IsSpace(c) == c \in SpaceSet

IsWordChar(c) == IsUpper(c) \/ IsLower(c) \/ IsDigit(c) \/ c = "_"

\* String.prototype.slice(from, to) with 0-based, end-exclusive indices
Slice(s, from, to) == SubSeq(s, from + 1, Min(to, Len(s)))

\* String.prototype.trim
RECURSIVE TrimLeft(_)
TrimLeft(s) ==
    IF s = <<>> THEN <<>>
    ELSE IF IsSpace(Head(s)) THEN TrimLeft(Tail(s)) ELSE s

RECURSIVE TrimRight(_)
TrimRight(s) ==
    IF s = <<>> THEN <<>>
    ELSE IF IsSpace(s[Len(s)])
         THEN The({TrimRight(t) : t \in {SubSeq(s, 1, Len(s) - 1)}})
         ELSE s

Trim(s) == The({TrimRight(t) : t \in {TrimLeft(s)}})

\* Array.prototype.join(" ")
RECURSIVE JoinSp(_)
JoinSp(ws) ==
    IF ws = <<>> THEN <<>>
    ELSE IF Len(ws) = 1 THEN ws[1]
    ELSE ws[1] \o <<" ">> \o JoinSp(Tail(ws))

\* the index of the first character of s that is in S, Len(s) + 1 when there
\* is none
FirstIn(s, S) ==
    The({IF hits = {} THEN Len(s) + 1
         ELSE CHOOSE i \in hits : \A j \in hits : i <= j :
            hits \in {{i \in 1..Len(s) : s[i] \in S}}})

\* the length of the run of characters other than white space that starts
\* at position p of s
RunEnd(s, p) ==
    The({(IF later = {} THEN Len(s) + 1
          ELSE CHOOSE i \in later : \A j \in later : i <= j) - p :
            later \in {{i \in p..Len(s) : IsSpace(s[i])}}})

\* String.prototype.split(/\s+/): the pieces between maximal whitespace runs,
\* empty pieces at either end included
SplitWs(s) ==
    The({[k \in 1..(Cardinality(starts) + lead + trail) |->
            IF k <= lead \/ k > Cardinality(starts) + lead THEN <<>>
            ELSE The({SubSeq(s, p, p + RunEnd(s, p) - 1) :
                        p \in {q \in starts :
                                 Cardinality({r \in starts : r < q}) = k - lead - 1}})] :
           <<starts, lead, trail>> \in
               {<<{i \in 1..Len(s) : ~IsSpace(s[i]) /\ (i = 1 \/ IsSpace(s[i - 1]))},
                  IF s = <<>> \/ IsSpace(s[1]) THEN 1 ELSE 0,
                  IF s # <<>> /\ IsSpace(s[Len(s)]) THEN 1 ELSE 0>>}})

\* String.prototype.split("\n")
RECURSIVE SplitLines(_, _)
SplitLines(s, cur) ==
    IF s = <<>> THEN <<cur>>
    ELSE IF Head(s) = "\n"
         THEN <<cur>> \o SplitLines(Tail(s), <<>>)
         ELSE The({SplitLines(SubSeq(s, n, Len(s)), cur \o SubSeq(s, 1, n - 1)) :
                     n \in {FirstIn(s, {"\n"})}})

\* ------------------------------------------------------------------------
\* DocumentProcessor.normalizeText
\* ------------------------------------------------------------------------
\* .replace(/\bl\b/g, "I")
FixOcr(s) ==
    [i \in 1..Len(s) |->
        IF /\ s[i] = "l"
           /\ (i = 1 \/ ~IsWordChar(s[i - 1]))
           /\ (i = Len(s) \/ ~IsWordChar(s[i + 1]))
        THEN "I" ELSE s[i]]

\* .replace(/\s+/g, " ")
RECURSIVE CollapseWs(_)
CollapseWs(s) ==
    The({IF n > Len(s) THEN s
         ELSE SubSeq(s, 1, n - 1) \o <<" ">>
                 \o CollapseWs(TrimLeft(SubSeq(s, n, Len(s)))) :
            n \in {FirstIn(s, SpaceSet)}})

\* .replace(/EN/g, "-").replace(/EL/g, "...")
RECURSIVE FixPunct(_)
FixPunct(s) ==
    The({IF n > Len(s) THEN s
         ELSE SubSeq(s, 1, n - 1)
                 \o (IF s[n] = "EN" THEN <<"-">> ELSE <<".", ".", ".">>)
                 \o FixPunct(SubSeq(s, n + 1, Len(s))) :
            n \in {FirstIn(s, {"EN", "EL"})}})

normalizeText(text) ==
    The({Trim(p) : p \in {FixPunct(c) : c \in {CollapseWs(o) : o \in
                            {FixOcr(t) : t \in {text}}}}})

\* ------------------------------------------------------------------------
\* DocumentProcessor.estimateTokens, getOverlapText, splitIntoSentences
\* ------------------------------------------------------------------------
\* Math.ceil(text.length / 4)
estimateTokens(text) == (Len(text) + 3) \div 4

getOverlapText(text) ==
    The({JoinSp(overlapWords) \o <<" ">> :
           overlapWords \in {SubSeq(words, Max(0, Len(words) - chunkOverlap) + 1,
                                    Len(words)) :
                                words \in {SplitWs(text)}}})

\* .replace(/([.!?])\s+/g, "$1|||"); the second replace of the source
\* rewrites "|||X" to "|||X" and changes nothing
RECURSIVE MarkSentences(_)
MarkSentences(s) ==
    IF s = <<>> THEN <<>>
    ELSE IF /\ Head(s) \in {".", "!", "?"}
            /\ Len(s) >= 2
            /\ IsSpace(s[2])
         THEN The({<<Head(s), "|", "|", "|">> \o MarkSentences(t) :
                     t \in {TrimLeft(Tail(s))}})
         ELSE IF Head(s) \in {".", "!", "?"}
         THEN <<Head(s)>> \o MarkSentences(Tail(s))
         ELSE The({SubSeq(s, 1, n - 1) \o MarkSentences(SubSeq(s, n, Len(s))) :
                     n \in {FirstIn(s, {".", "!", "?"})}})

\* .split("|||")
RECURSIVE SplitBars(_, _)
SplitBars(s, cur) ==
    IF s = <<>> THEN <<cur>>
    ELSE IF Len(s) >= 3 /\ s[1] = "|" /\ s[2] = "|" /\ s[3] = "|"
         THEN The({<<cur>> \o SplitBars(t, <<>>) : t \in {SubSeq(s, 4, Len(s))}})
         ELSE IF Head(s) = "|"
         THEN SplitBars(Tail(s), Append(cur, Head(s)))
         ELSE The({SplitBars(SubSeq(s, n, Len(s)), cur \o SubSeq(s, 1, n - 1)) :
                     n \in {FirstIn(s, {"|"})}})

\* .map((s) => s.trim())
RECURSIVE TrimEach(_)
TrimEach(parts) ==
    IF parts = <<>> THEN <<>>
    ELSE The({<<Trim(p)>> \o TrimEach(Tail(parts)) : p \in {Head(parts)}})

splitIntoSentences(text) ==
    The({SelectSeq(trimmed, LAMBDA p : Len(p) > 0) :
           trimmed \in {TrimEach(parts) :
                          parts \in {SplitBars(m, <<>>) :
                                       m \in {MarkSentences(t) : t \in {text}}}}})

\* ------------------------------------------------------------------------
\* SECTION_PATTERNS and DocumentProcessor.identifySections
\* ------------------------------------------------------------------------
\* length of the longest run of characters of class S in s starting at
\* 1-based position from (a greedy quantifier over a character class)
RECURSIVE RunLen(_, _, _)
RunLen(s, from, S) ==
    IF from < 1 \/ from > Len(s) THEN 0
    ELSE IF s[from] \in S THEN 1 + RunLen(s, from + 1, S)
    ELSE 0

NoMatch == [ok |-> FALSE, clause |-> <<>>]

\* a match whose first capture group is g; <<>> stands for undefined
Matched(g) == [ok |-> TRUE, clause |-> g]

RomanSet == {"I", "V", "X", "L", "C", "D", "M"}

RomanAnyCase == RomanSet \cup {"i", "v", "x", "l", "c", "d", "m"}

\* /^kw\s+/i : position after the keyword and its whitespace, 0 if no match
AfterKeyword(line, kw) ==
    IF /\ Len(line) >= Len(kw)
       /\ \A i \in 1..Len(kw) : ToLower(line[i]) = kw[i]
       /\ RunLen(line, Len(kw) + 1, SpaceSet) >= 1
    THEN Len(kw) + 1 + RunLen(line, Len(kw) + 1, SpaceSet)
    ELSE 0

\* /^Section\s+(\d+[A-Za-z]?)/im
MatchSection(line) ==
    LET p == AfterKeyword(line, <<"s", "e", "c", "t", "i", "o", "n">>)
        d == RunLen(line, p, DigitSet)
        e == IF p + d <= Len(line) /\ line[p + d] \in (UpperSet \cup LowerSet)
             THEN 1 ELSE 0
    IN  IF p = 0 \/ d = 0 THEN NoMatch
        ELSE Matched(SubSeq(line, p, p + d + e - 1))

\* /^Article\s+(\d+)/im and /^Rule\s+(\d+)/im
MatchKeywordDigits(line, kw) ==
    LET p == AfterKeyword(line, kw)
        d == RunLen(line, p, DigitSet)
    IN  IF p = 0 \/ d = 0 THEN NoMatch
        ELSE Matched(SubSeq(line, p, p + d - 1))

\* /^Clause\s+(\d+(?:\.\d+)?)/im
MatchClause(line) ==
    LET p == AfterKeyword(line, <<"c", "l", "a", "u", "s", "e">>)
        d == RunLen(line, p, DigitSet)
        f == IF p + d <= Len(line) /\ line[p + d] = "."
             THEN RunLen(line, p + d + 1, DigitSet) ELSE 0
        e == IF f > 0 THEN f + 1 ELSE 0
    IN  IF p = 0 \/ d = 0 THEN NoMatch
        ELSE Matched(SubSeq(line, p, p + d + e - 1))

\* /^Order\s+([IVXLCDM]+|\d+)/im
MatchOrder(line) ==
    LET p == AfterKeyword(line, <<"o", "r", "d", "e", "r">>)
        r == RunLen(line, p, RomanAnyCase)
        d == RunLen(line, p, DigitSet)
    IN  IF p = 0 THEN NoMatch
        ELSE IF r > 0 THEN Matched(SubSeq(line, p, p + r - 1))
        ELSE IF d > 0 THEN Matched(SubSeq(line, p, p + d - 1))
        ELSE NoMatch

\* /^(?:^\d+)\.\s+([A-Z][^.]+)/m
MatchNumbered(line) ==
    LET d == RunLen(line, 1, DigitSet)
        w == IF d + 1 <= Len(line) /\ line[d + 1] = "."
             THEN RunLen(line, d + 2, SpaceSet) ELSE 0
        p == d + 2 + w
        rest == {j \in (p + 1)..Len(line) : line[j] = "."}
        stop == IF rest = {} THEN Len(line) + 1
                ELSE CHOOSE j \in rest : \A m \in rest : j <= m
    IN  IF /\ d > 0
           /\ w > 0
           /\ p <= Len(line)
           /\ line[p] \in UpperSet
           /\ stop > p + 1
        THEN Matched(SubSeq(line, p, stop - 1))
        ELSE NoMatch

\* /^(?:^[IVXLCDM]+)\.\s+/m
MatchRoman(line) ==
    LET r == RunLen(line, 1, RomanSet)
    IN  IF /\ r > 0
           /\ r + 1 <= Len(line)
           /\ line[r + 1] = "."
           /\ RunLen(line, r + 2, SpaceSet) >= 1
        THEN Matched(<<>>)
        ELSE NoMatch

\* /^(?:\([a-z]\)|\([ivx]+\))/m
MatchSubItem(line) ==
    LET r == RunLen(line, 2, {"i", "v", "x"})
    IN  IF Len(line) >= 1 /\ line[1] = "("
           /\ \/ (Len(line) >= 3 /\ line[2] \in LowerSet /\ line[3] = ")")
              \/ (r > 0 /\ r + 2 <= Len(line) /\ line[r + 2] = ")")
        THEN Matched(<<>>)
        ELSE NoMatch

\* the first pattern of SECTION_PATTERNS that matches the line
FirstMatch(ms) ==
    IF \A i \in 1..Len(ms) : ~ms[i].ok THEN NoMatch
    ELSE ms[CHOOSE i \in 1..Len(ms) : ms[i].ok /\ \A j \in 1..(i - 1) : ~ms[j].ok]

MatchHeading(line) ==
    The({FirstMatch(ms) :
           ms \in {<< MatchSection(line),
                      MatchKeywordDigits(line, <<"a", "r", "t", "i", "c", "l", "e">>),
                      MatchClause(line),
                      MatchKeywordDigits(line, <<"r", "u", "l", "e">>),
                      MatchOrder(line),
                      MatchNumbered(line),
                      MatchRoman(line),
                      MatchSubItem(line) >>}})

\* the loop of identifySections from line i on, at offset currentPos
\* one iteration of the loop: the sections after the line at currentPos
ScanLine(line, m, currentPos, sections, textLen) ==
    LET closed == IF sections # <<>>
                  THEN [sections EXCEPT ![Len(sections)].end = currentPos]
                  ELSE sections
    IN  IF m.ok
        THEN Append(closed,
                    [start |-> currentPos,
                     end |-> textLen,
                     title |-> Slice(Trim(line), 0, 100),
                     clauseNumber |-> m.clause])
        ELSE sections

RECURSIVE ScanLines(_, _, _, _, _)
ScanLines(lines, i, currentPos, sections, textLen) ==
    IF i > Len(lines) THEN sections
    ELSE The({ScanLines(lines, i + 1, pos, next, textLen) :
                pos \in {currentPos + Len(lines[i]) + 1},
                next \in {ScanLine(line, m, currentPos, sections, textLen) :
                            <<line, m>> \in {<<l, MatchHeading(l)>> : l \in {lines[i]}}}})

identifySections(text) ==
    The({ScanLines(lines, 1, 0, <<>>, n) :
           lines \in {SplitLines(text, <<>>)}, n \in {Len(text)}})

\* ------------------------------------------------------------------------
\* DocumentProcessor.slidingWindowChunk, splitLargeSection, chunkDocument
\* A chunk's id (a fresh uuid in the source) is its position in the list the
\* function returns; the pipeline pairs it with the invocation.
\* ------------------------------------------------------------------------
NoLabel == <<>>

MkChunk(content, idx, title, clause, startChar, endChar) ==
    [content |-> content, chunkIndex |-> idx, section |-> title,
     clauseNumber |-> clause, startChar |-> startChar, endChar |-> endChar]

\* the loop of slidingWindowChunk over sentences i.. with its four locals
\* the locals of the loop of slidingWindowChunk
Locals(chunks, currentChunk, chunkStart, currentStart) ==
    [chunks |-> chunks, currentChunk |-> currentChunk, chunkStart |-> chunkStart,
     currentStart |-> currentStart]

\* one iteration of the loop of slidingWindowChunk, from locals v
SlideStep(sentence, v) ==
    IF estimateTokens(v.currentChunk \o sentence \o <<" ">>) > maxChunkSize
    THEN The({Locals(IF trimmed # <<>>
                     THEN Append(v.chunks,
                                 MkChunk(trimmed, Len(v.chunks), NoLabel, NoLabel,
                                         v.chunkStart,
                                         v.chunkStart + Len(v.currentChunk)))
                     ELSE v.chunks,
                     overlapText \o sentence \o <<" ">>,
                     v.currentStart - Len(overlapText),
                     v.currentStart + Len(sentence) + 1) :
                trimmed \in {Trim(v.currentChunk)},
                overlapText \in {getOverlapText(v.currentChunk)}})
    ELSE Locals(v.chunks, v.currentChunk \o sentence \o <<" ">>, v.chunkStart,
                v.currentStart + Len(sentence) + 1)

\* the loop of slidingWindowChunk over sentences i.. from locals v
RECURSIVE SlideLoop(_, _, _)
SlideLoop(sentences, i, v) ==
    IF i > Len(sentences) THEN v
    ELSE The({SlideLoop(sentences, i + 1, w) :
                w \in {SlideStep(s, v) : s \in {sentences[i]}}})

slidingWindowChunk(text) ==
    The({IF trimmed # <<>>
         THEN Append(r.chunks,
                     MkChunk(trimmed, Len(r.chunks), NoLabel, NoLabel,
                             r.chunkStart, Len(text)))
         ELSE r.chunks :
           <<r, trimmed>> \in
               {<<v, Trim(v.currentChunk)>> :
                   v \in {SlideLoop(sentences, 1, Locals(<<>>, <<>>, 0, 0)) :
                            sentences \in {splitIntoSentences(text)}}}})

\* the loop of splitLargeSection; chunkIndex is 0 until the caller sets it
\* one iteration of the loop of splitLargeSection, from locals v (which has
\* no currentStart)
SplitStep(sentence, section, v) ==
    IF estimateTokens(v.currentChunk \o sentence \o <<" ">>) > maxChunkSize
    THEN The({Locals(IF trimmed # <<>>
                     THEN Append(v.chunks,
                                 MkChunk(trimmed, 0, section.title,
                                         section.clauseNumber, v.chunkStart,
                                         v.chunkStart + Len(v.currentChunk)))
                     ELSE v.chunks,
                     overlapText \o sentence \o <<" ">>,
                     v.chunkStart + Len(overlapText \o sentence \o <<" ">>)
                         - Len(overlapText) - Len(sentence) - 1,
                     0) :
                trimmed \in {Trim(v.currentChunk)},
                overlapText \in {getOverlapText(v.currentChunk)}})
    ELSE Locals(v.chunks, v.currentChunk \o sentence \o <<" ">>, v.chunkStart, 0)

RECURSIVE SplitLoop(_, _, _, _)
SplitLoop(sentences, i, section, v) ==
    IF i > Len(sentences) THEN v
    ELSE The({SplitLoop(sentences, i + 1, section, w) :
                w \in {SplitStep(s, section, v) : s \in {sentences[i]}}})

splitLargeSection(sectionText, section) ==
    The({IF trimmed # <<>>
         THEN Append(r.chunks,
                     MkChunk(trimmed, 0, section.title, section.clauseNumber,
                             r.chunkStart, section.start + Len(sectionText)))
         ELSE r.chunks :
           <<r, trimmed>> \in
               {<<v, Trim(v.currentChunk)>> :
                   v \in {SplitLoop(sentences, 1, section,
                                    Locals(<<>>, <<>>, section.start, 0)) :
                            sentences \in {splitIntoSentences(sectionText)}}}})

\* variant: the chunks of a split section keep the index they were given
RECURSIVE PushAll_KeepIndex(_, _)
PushAll_KeepIndex(chunks, subChunks) ==
    IF subChunks = <<>> THEN chunks
    ELSE The({PushAll_KeepIndex(next, Tail(subChunks)) :
                next \in {Append(chunks, Head(subChunks))}})

\* the chunks of subChunks appended to chunks, each with chunkIndex chunks.length
RECURSIVE PushAll(_, _)
PushAll(chunks, subChunks) ==
    IF subChunks = <<>> THEN chunks
    ELSE The({PushAll(next, Tail(subChunks)) :
                next \in {Append(chunks,
                                 [Head(subChunks) EXCEPT !.chunkIndex = Len(chunks)])}})

RECURSIVE SectionLoop(_, _, _, _)
\* one iteration of the loop of chunkDocument over the sections
SectionStep(sectionText, section, chunks) ==
    IF estimateTokens(sectionText) <= maxChunkSize
    THEN Append(chunks,
                MkChunk(Trim(sectionText), Len(chunks), section.title,
                        section.clauseNumber, section.start, section.end))
    ELSE The({PushAll(chunks, subChunks) :
                subChunks \in {splitLargeSection(sectionText, section)}})

SectionLoop(text, sections, i, chunks) ==
    IF i > Len(sections) THEN chunks
    ELSE The({SectionLoop(text, sections, i + 1, next) :
                next \in {SectionStep(sectionText, section, chunks) :
                            <<sectionText, section>> \in
                                {<<Slice(text, s.start, s.end), s>> :
                                    s \in {sections[i]}}}})

chunkDocument(text) ==
    The({IF Len(sections) = 0 THEN slidingWindowChunk(t)
         ELSE SectionLoop(t, sections, 1, <<>>) :
           <<t, sections>> \in {<<x, identifySections(x)>> : x \in {text}}})

\* ------------------------------------------------------------------------
\* RAGPipeline.extractCitations, buildContext and the confidence of query
\* ------------------------------------------------------------------------
Ellipsis == <<".", ".", ".">>

\* variant: the content cut at the limit with no ellipsis
Preview_NoEllipsis(content) ==
    Slice(content, 0, PreviewLimit)

\* r.content.slice(0, 200) + (r.content.length > 200 ? "..." : "")
Preview(content) ==
    Slice(content, 0, PreviewLimit) \o
        (IF Len(content) > PreviewLimit THEN Ellipsis ELSE <<>>)

\* variant: the citations in the reverse order of the results
extractCitations_Reversed(results) ==
    [i \in 1..Len(results) |->
        [source |-> results[Len(results) + 1 - i].documentId,
         section |-> results[Len(results) + 1 - i].section,
         content |-> Preview(results[Len(results) + 1 - i].content),
         relevanceScore |-> results[Len(results) + 1 - i].score]]

\* lines 264-271
extractCitations(results) ==
    [i \in 1..Len(results) |->
        [source |-> results[i].documentId,
         section |-> results[i].section,
         content |-> Preview(results[i].content),
         relevanceScore |-> results[i].score]]

\* the label and content of each context block, in the order of join()
buildContext(results) ==
    [i \in 1..Len(results) |->
        [label |-> i, section |-> results[i].section, content |-> results[i].content]]

RECURSIVE SumScores(_)
SumScores(results) ==
    IF results = <<>> THEN 0 ELSE Head(results).score + SumScores(Tail(results))

\* a confidence is the fraction num / den of integer scores; the scores the
\* model draws are 0, 1 (the cosine of identical directions) and larger values
\* (a provider-defined range)
ScoreOne == 1

\* variant: the mean of the scores with no upper limit
Confidence_Unclamped(results) ==
    [num |-> SumScores(results), den |-> Len(results)]

\* Math.min(avgScore, 1) with avgScore = sum / length
Confidence(results) ==
    IF SumScores(results) > ScoreOne * Len(results)
    THEN [num |-> ScoreOne, den |-> 1]
    ELSE [num |-> SumScores(results), den |-> Len(results)]

ZeroConfidence == [num |-> 0, den |-> 1]


\* ------------------------------------------------------------------------
\* State
\* ------------------------------------------------------------------------
Users == {"u1", "u2"}

NoUser == "anonymous"

DocIds == 1..MaxIngest

NoDoc == 0

IngestIds == 1..MaxIngest

QueryIds == 1..MaxQuery
DeleteIds == 1..MaxDelete

UPLOAD_MONTHLY_LIMIT == 10

QUERY_MONTHLY_LIMIT == 50

PlainFile(t) == [fileType |-> "text/plain", text |-> t]

PdfFile(t) == [fileType |-> "application/pdf", text |-> t]

SampleFile == PlainFile(<<"P", "a", "y", ".", " ", "N", "o", "w", ".">>)

\* the uploads the model draws from: an empty file, a whitespace-only file,
\* a file of two sentences, and a PDF (whose parser may fail) with a heading
InputFiles ==
    { PlainFile(<<>>),
      PlainFile(<<" ", "\n", " ">>),
      SampleFile,
      PdfFile(<<"S", "e", "c", "t", "i", "o", "n", " ", "1", "\n", "x">>) }

NoFile == PlainFile(<<>>)

ScoreValues == 0..MaxScore

ActionTypes == {"document_upload", "query"}

VARIABLES
    docs,          \* documents table: id -> [status, owner, file]
    chunkRows,     \* document_chunks table
    queries,       \* queries table, in insertion order
    usage,         \* usage_tracking table: number of events per user and type
    collection,    \* whether the Qdrant collection exists
    points,        \* the points of the Qdrant collection
    qdrantClient,  \* VectorService.client is set
    groqClient,    \* LLMService.groqClient is set
    geminiClient,  \* LLMService.geminiClient is set
    ing,           \* ingestDocument invocations
    qry,           \* POST /api/query requests
    faults,        \* failures of external services injected so far
    cite,          \* one application of extractCitations to a search result
    del,           \* DELETE /api/documents requests
    pure           \* one application of a function of the libraries to an input

vars == <<docs, chunkRows, queries, usage, collection, points,
          qdrantClient, groqClient, geminiClient, ing, qry, faults, cite,
          del, pure>>

store == <<docs, chunkRows, queries, usage>>

config == <<qdrantClient, groqClient, geminiClient>>

NoResult == [status |-> "none", chunksCreated |-> 0, error |-> "none"]

IdleIngest ==
    [pc |-> "idle", doc |-> NoDoc, user |-> NoUser, file |-> NoFile,
     log |-> <<>>, result |-> NoResult, error |-> "none"]

NoResponse == [code |-> 0]

\* the request bodies: one the schema accepts, one it refuses, one that is
\* not JSON
Bodies == {"valid", "invalid", "malformed"}

IdleQuery ==
    [pc |-> "idle", user |-> NoUser, documentId |-> NoDoc, log |-> <<>>,
     results |-> <<>>, context |-> <<>>, answer |-> {}, error |-> "none",
     response |-> NoResponse]

NoCite == [pc |-> "idle", content |-> <<>>, preview |-> <<>>]

AbsentDoc == [status |-> "absent", owner |-> NoUser, file |-> NoFile]

\* a row that DELETE removed: its id is a uuid and is never issued again
DeletedDoc == [status |-> "deleted", owner |-> NoUser, file |-> NoFile]

\* the documents table holds a row with this id
Present(d) == docs[d].status \notin {"absent", "deleted"}

IdleDelete ==
    [pc |-> "idle", user |-> NoUser, documentId |-> NoDoc, log |-> <<>>,
     error |-> "none", response |-> NoResponse]

NoPure == [pc |-> "idle"]

\* the services as their constructors leave them: each client is set when
\* its environment variables are
ConfigInit ==
    /\ qdrantClient \in BOOLEAN
    /\ groqClient \in BOOLEAN
    /\ geminiClient \in BOOLEAN

IdleInit ==
    /\ ing = [i \in IngestIds |-> IdleIngest]
    /\ qry = [k \in QueryIds |-> IdleQuery]
    /\ faults = 0
    /\ cite = NoCite
    /\ del = [r \in DeleteIds |-> IdleDelete]

\* a fresh deployment: empty tables and no collection
Init ==
    /\ docs = [d \in DocIds |-> AbsentDoc]
    /\ chunkRows = {}
    /\ queries = <<>>
    /\ usage = [e \in Users \X ActionTypes |-> 0]
    /\ collection = FALSE
    /\ points = {}
    /\ ConfigInit
    /\ IdleInit
    /\ pure = NoPure

\* variant: the error a failing store raises
NotConfiguredError_AsStoreFailure == "VectorStoreFailure"

\* VectorService lines 74, 107, 168 and 185: the error of a service that was
\* constructed without QDRANT_URL
NotConfiguredError == "NotConfigured"

\* one entry of an invocation's log: a call it made and whether it succeeded
Call(name, ok) == [call |-> name, ok |-> ok]

Logged(rec, name, ok) == Append(rec.log, Call(name, ok))

\* count of a user's usage events of one type (this month)
UsageCount(u, type) == usage[<<u, type>>]

\* usage_tracking.insert({user_id, action_type})
UsageInserted(u, type, ok) ==
    IF ok THEN [usage EXCEPT ![<<u, type>>] = @ + 1] ELSE usage

\* An external call either succeeds or fails; the failures injected in one
\* behaviour are bounded by MaxFaults
Outcomes == IF faults < MaxFaults THEN {TRUE, FALSE} ELSE {TRUE}

Fault(ok) == faults' = IF ok THEN faults ELSE faults + 1

\* ------------------------------------------------------------------------
\* LLMService.getDefaultProvider
\* ------------------------------------------------------------------------
\* variant: Gemini preferred
getDefaultProvider_GeminiFirst ==
    IF geminiClient THEN "gemini"
    ELSE IF groqClient THEN "groq"
    ELSE "none"

getDefaultProvider ==
    IF groqClient THEN "groq"
    ELSE IF geminiClient THEN "gemini"
    ELSE "none"

\* ------------------------------------------------------------------------
\* RAGPipeline.ingestDocument, one action per await
\* ------------------------------------------------------------------------
\* lines 57-60 on the text extractText returns
IngestedChunks ==
    [file \in InputFiles |->
        The({chunkDocument(t) : t \in {normalizeText(file.text)}})]

ChunksOfFile(file) == IngestedChunks[file]

ChunksOf(i) == ChunksOfFile(ing[i].file)

\* lines 71-78; the uuid of chunk k of invocation inv is <<inv, k>>
ChunkRecordsFor(inv, documentId, chunks) ==
    {[id |-> <<inv, k>>, document_id |-> documentId, chunk_index |-> k - 1,
      content |-> chunks[k].content, vector_id |-> <<inv, k>>] :
        k \in 1..Len(chunks)}

\* lines 83-94 and VectorService.upsertVectors lines 80-87
VectorDocsFor(inv, documentId, userId, chunks) ==
    {[id |-> <<inv, k>>, content |-> chunks[k].content,
      documentId |-> documentId, userId |-> userId,
      chunkIndex |-> k - 1, section |-> chunks[k].section] :
        k \in 1..Len(chunks)}

chunkRecords(i) == ChunkRecordsFor(i, ing[i].doc, ChunksOf(i))

vectorDocs(i) == VectorDocsFor(i, ing[i].doc, ing[i].user, ChunksOf(i))

\* client.upsert: points are keyed by id
Upserted(pts, new) == {p \in pts : \A v \in new : v.id # p.id} \cup new

\* the invocation after a call that succeeded (and goes on at next) or threw
\* (and goes on in the catch block of ingestDocument with error err)
AfterCall(i, name, ok, next, err) ==
    IF ok
    THEN [ing[i] EXCEPT !.pc = next, !.log = Logged(ing[i], name, TRUE)]
    ELSE [ing[i] EXCEPT !.pc = "catch", !.error = err,
                        !.log = Logged(ing[i], name, FALSE)]

\* variant: an error of the metadata store is thrown
AfterStore_Throwing(i, name, ok, next) ==
    [ing[i] EXCEPT !.pc = IF ok THEN next ELSE "catch",
                   !.log = Logged(ing[i], name, ok)]

\* the invocation after a call to the metadata store, which returns an error
\* object instead of throwing; the pipeline does not look at it
AfterStore(i, name, ok, next) ==
    [ing[i] EXCEPT !.pc = next, !.log = Logged(ing[i], name, ok)]

\* POST /api/documents: the accepted upload creates the document record as
\* 'pending' under a fresh id and starts ingestDocument without awaiting it
UploadPost(i, u, f) ==
    /\ ing[i].pc = "idle"
    /\ \A j \in IngestIds : j < i => ing[j].pc # "idle"
    /\ UsageCount(u, "document_upload") < UPLOAD_MONTHLY_LIMIT
    /\ \E d \in DocIds :
         /\ docs[d].status = "absent"
         /\ \A e \in DocIds : e < d => docs[e].status # "absent"
         /\ docs' = [docs EXCEPT ![d] = [status |-> "pending", owner |-> u, file |-> f]]
         /\ ing' = [ing EXCEPT ![i] = [IdleIngest EXCEPT !.pc = "markProcessing",
                                                         !.doc = d, !.user = u,
                                                         !.file = f]]
    /\ UNCHANGED <<chunkRows, queries, usage, collection, points, config, qry,
                   faults, cite, del, pure>>

\* a caller runs ingestDocument again for an existing document, with the
\* same owner and bytes
Reingest(i, d) ==
    /\ ing[i].pc = "idle"
    /\ \A j \in IngestIds : j < i => ing[j].pc # "idle"
    /\ Present(d)
    /\ ing' = [ing EXCEPT ![i] = [IdleIngest EXCEPT !.pc = "markProcessing",
                                                    !.doc = d, !.user = docs[d].owner,
                                                    !.file = docs[d].file]]
    /\ UNCHANGED <<store, collection, points, config, qry, faults, cite, del, pure>>

\* documents.update({status}).eq("id", documentId)
StatusWritten(i, status, ok) ==
    IF ok /\ Present(ing[i].doc)
    THEN [docs EXCEPT ![ing[i].doc].status = status]
    ELSE docs

\* lines 44-47: update status to processing
MarkProcessing(i) ==
    /\ ing[i].pc = "markProcessing"
    /\ \E ok \in Outcomes :
         /\ docs' = StatusWritten(i, "processing", ok)
         /\ ing' = [ing EXCEPT ![i] = AfterStore(i, "status:processing", ok, "extract")]
         /\ Fault(ok)
    /\ UNCHANGED <<chunkRows, queries, usage, collection, points, config, qry, cite, del, pure>>

\* extractText: plain text is decoded; the parser of a structured format may
\* fail
ExtractOutcomes(file) ==
    IF file.fileType = "text/plain" THEN {TRUE} ELSE Outcomes

\* lines 62-68: zero chunks throw; otherwise the chunks are embedded
AfterChunking(i, chunks) ==
    IF Len(chunks) = 0
    THEN [ing[i] EXCEPT !.pc = "catch", !.error = "EmptyDocument",
                        !.log = Logged(ing[i], "extractText", TRUE)]
    ELSE [ing[i] EXCEPT !.pc = "insertChunks",
                        !.log = ing[i].log \o <<Call("extractText", TRUE),
                                                Call("embedBatch", TRUE)>>]

\* lines 50-68: extractText, normalizeText, chunkDocument, embedBatch
ExtractChunkEmbed(i) ==
    /\ ing[i].pc = "extract"
    /\ \E ok \in ExtractOutcomes(ing[i].file) :
         /\ ing' = [ing EXCEPT ![i] =
                IF ok THEN AfterChunking(i, ChunksOf(i))
                ELSE AfterCall(i, "extractText", FALSE, "catch", "ExtractionFailure")]
         /\ Fault(ok)
    /\ UNCHANGED <<store, collection, points, config, qry, cite, del, pure>>

\* document_chunks.document_id references documents(id): the insert of rows
\* for a document that has no row is refused by the store
RowsAccepted(i, ok) == ok /\ Present(ing[i].doc)

\* line 80: insert the chunk records
InsertChunks(i) ==
    /\ ing[i].pc = "insertChunks"
    /\ \E ok \in Outcomes :
         /\ chunkRows' = IF RowsAccepted(i, ok) THEN chunkRows \cup chunkRecords(i)
                         ELSE chunkRows
         /\ ing' = [ing EXCEPT ![i] =
                        AfterStore(i, "insert:document_chunks", RowsAccepted(i, ok),
                                   "upsertVectors")]
         /\ Fault(ok)
    /\ UNCHANGED <<docs, queries, usage, collection, points, config, qry, cite, del, pure>>

\* VectorService.initialize lines 51-56: where the caller goes on after
\* getCollections has answered
AfterGetCollections(exists, pointsStep) ==
    IF exists THEN pointsStep ELSE "createCollection"

\* VectorService.upsertVectors lines 73-78 and initialize lines 44-54: the
\* client check and getCollections
UpsertGetCollections(i) ==
    /\ ing[i].pc = "upsertVectors"
    /\ IF ~qdrantClient
       THEN /\ ing' = [ing EXCEPT ![i] = [ing[i] EXCEPT !.pc = "catch",
                                                        !.error = NotConfiguredError]]
            /\ UNCHANGED faults
       ELSE \E ok \in Outcomes :
              /\ ing' = [ing EXCEPT ![i] =
                    AfterCall(i, "getCollections", ok,
                              AfterGetCollections(collection, "upsertPoints"),
                              "VectorStoreFailure")]
              /\ Fault(ok)
    /\ UNCHANGED <<store, collection, points, config, qry, cite, del, pure>>

\* client.createCollection succeeds only while the collection is absent: the
\* store rejects the creation of a collection that exists
CreateAccepted(exists) == ~exists

\* VectorService.initialize lines 56-69 under upsertVectors
UpsertCreateCollection(i) ==
    /\ ing[i].pc = "createCollection"
    /\ IF ~CreateAccepted(collection)
       THEN /\ ing' = [ing EXCEPT ![i] =
                    AfterCall(i, "createCollection", FALSE, "catch", "CollectionExists")]
            /\ UNCHANGED <<collection, faults>>
       ELSE \E ok \in Outcomes :
              /\ collection' = (collection \/ ok)
              /\ ing' = [ing EXCEPT ![i] =
                    AfterCall(i, "createCollection", ok, "upsertPoints",
                              "VectorStoreFailure")]
              /\ Fault(ok)
    /\ UNCHANGED <<store, points, config, qry, cite, del, pure>>

\* VectorService.upsertVectors lines 80-92: client.upsert
UpsertPoints(i) ==
    /\ ing[i].pc = "upsertPoints"
    /\ \E ok \in Outcomes :
         /\ points' = IF ok THEN Upserted(points, vectorDocs(i)) ELSE points
         /\ ing' = [ing EXCEPT ![i] =
                        AfterCall(i, "upsert", ok, "summary", "VectorStoreFailure")]
         /\ Fault(ok)
    /\ UNCHANGED <<store, collection, config, qry, cite, del, pure>>

\* lines 99-108: llmService.chat for the summary
Summarize(i) ==
    /\ ing[i].pc = "summary"
    /\ IF getDefaultProvider = "none"
       THEN /\ ing' = [ing EXCEPT ![i] = [ing[i] EXCEPT !.pc = "catch",
                                                        !.error = "NoProviderConfigured"]]
            /\ UNCHANGED faults
       ELSE \E ok \in Outcomes :
              /\ ing' = [ing EXCEPT ![i] =
                    AfterCall(i, getDefaultProvider, ok, "markCompleted",
                              "GenerationFailure")]
              /\ Fault(ok)
    /\ UNCHANGED <<store, collection, points, config, qry, cite, del, pure>>

\* lines 111-119: update status to completed
MarkCompleted(i) ==
    /\ ing[i].pc = "markCompleted"
    /\ \E ok \in Outcomes :
         /\ docs' = StatusWritten(i, "completed", ok)
         /\ ing' = [ing EXCEPT ![i] = AfterStore(i, "status:completed", ok, "trackUsage")]
         /\ Fault(ok)
    /\ UNCHANGED <<chunkRows, queries, usage, collection, points, config, qry, cite, del, pure>>

\* lines 132-136
CompletedResult(i) ==
    [status |-> "completed", chunksCreated |-> Len(ChunksOf(i)), error |-> "none"]

\* lines 146-151
FailedResult(i) ==
    [status |-> "failed", chunksCreated |-> 0, error |-> ing[i].error]

\* lines 122-136: insert the usage event and return
TrackUpload(i) ==
    /\ ing[i].pc = "trackUsage"
    /\ \E ok \in Outcomes :
         /\ usage' = UsageInserted(ing[i].user, "document_upload", ok)
         /\ ing' = [ing EXCEPT ![i] =
                [AfterStore(i, "insert:usage_tracking", ok, "done") EXCEPT
                    !.result = CompletedResult(i)]]
         /\ Fault(ok)
    /\ UNCHANGED <<docs, chunkRows, queries, collection, points, config, qry, cite, del, pure>>

\* lines 137-152: the catch block
IngestCatch(i) ==
    /\ ing[i].pc = "catch"
    /\ \E ok \in Outcomes :
         /\ docs' = StatusWritten(i, "failed", ok)
         /\ ing' = [ing EXCEPT ![i] =
                [AfterStore(i, "status:failed", ok, "done") EXCEPT
                    !.result = FailedResult(i)]]
         /\ Fault(ok)
    /\ UNCHANGED <<chunkRows, queries, usage, collection, points, config, qry, cite, del, pure>>

Next ==
    \/ \E i \in IngestIds, u \in Users, f \in InputFiles : UploadPost(i, u, f)
    \/ \E i \in IngestIds, d \in DocIds : Reingest(i, d)
    \/ \E i \in IngestIds : MarkProcessing(i)
    \/ \E i \in IngestIds : ExtractChunkEmbed(i)
    \/ \E i \in IngestIds : InsertChunks(i)
    \/ \E i \in IngestIds : UpsertGetCollections(i)
    \/ \E i \in IngestIds : UpsertCreateCollection(i)
    \/ \E i \in IngestIds : UpsertPoints(i)
    \/ \E i \in IngestIds : Summarize(i)
    \/ \E i \in IngestIds : MarkCompleted(i)
    \/ \E i \in IngestIds : TrackUpload(i)
    \/ \E i \in IngestIds : IngestCatch(i)

\* the ingestion side: uploads and ingestDocument invocations from a fresh
\* deployment
Spec == Init /\ [][Next]_vars

\* ------------------------------------------------------------------------
\* DELETE /api/documents/{id} and the delete methods of VectorService
\* ------------------------------------------------------------------------
Answered_Delete(r, code, err) ==
    [del[r] EXCEPT !.pc = "done", !.error = err, !.response = [code |-> code]]

\* DELETE lines 318-341: authentication and the ownership check
DeletePost(r, u, d) ==
    /\ del[r].pc = "idle"
    /\ del' = [del EXCEPT ![r] =
         IF u = NoUser
         THEN [Answered_Delete(r, 401, "none") EXCEPT !.documentId = d]
         ELSE IF ~Present(d) \/ docs[d].owner # u
         THEN [Answered_Delete(r, 404, "none") EXCEPT !.user = u, !.documentId = d]
         ELSE [del[r] EXCEPT !.pc = "deleteRow", !.user = u, !.documentId = d]]
    /\ UNCHANGED <<store, collection, points, config, ing, qry, faults, cite, pure>>

\* ON DELETE CASCADE of document_chunks.document_id
Cascade(rows, d) == {row \in rows : row.document_id # d}

\* DELETE lines 350-362: documents.delete().eq("id", documentId); the rows of
\* document_chunks go with the document
DeleteRow(r) ==
    /\ del[r].pc = "deleteRow"
    /\ \E ok \in Outcomes :
         /\ docs' = IF ok THEN [docs EXCEPT ![del[r].documentId] = DeletedDoc] ELSE docs
         /\ chunkRows' = IF ok THEN Cascade(chunkRows, del[r].documentId) ELSE chunkRows
         /\ del' = [del EXCEPT ![r] =
                IF ok
                THEN [del[r] EXCEPT !.pc = "deleteVectors",
                                    !.log = Logged(del[r], "delete:documents", TRUE)]
                ELSE [Answered_Delete(r, 500, "DeleteFailed") EXCEPT
                         !.log = Logged(del[r], "delete:documents", FALSE)]]
         /\ Fault(ok)
    /\ UNCHANGED <<queries, usage, collection, points, config, ing, qry, cite, pure>>

\* client.delete with a filter on one payload field
WithoutField(pts, field, value) == {p \in pts : p[field] # value}

\* client.delete is answered only by a collection that exists
DeleteAccepted(exists) == exists

\* one of the delete methods of VectorService (lines 166-198) on behalf of
\* request r: the client check, then client.delete with the filter
VectorDelete(r, field, value) ==
    IF ~qdrantClient
    THEN /\ del' = [del EXCEPT ![r] = Answered_Delete(r, 500, NotConfiguredError)]
         /\ UNCHANGED <<points, faults>>
    ELSE IF ~DeleteAccepted(collection)
    THEN /\ del' = [del EXCEPT ![r] =
                [Answered_Delete(r, 500, "CollectionMissing") EXCEPT
                    !.log = Logged(del[r], "delete:points", FALSE)]]
         /\ UNCHANGED <<points, faults>>
    ELSE \E ok \in Outcomes :
           /\ points' = IF ok THEN WithoutField(points, field, value) ELSE points
           /\ del' = [del EXCEPT ![r] =
                  [Answered_Delete(r, IF ok THEN 200 ELSE 500,
                                   IF ok THEN "none" ELSE "VectorStoreFailure") EXCEPT
                      !.log = Logged(del[r], "delete:points", ok)]]
           /\ Fault(ok)

\* DELETE lines 364-367: ragPipeline.deleteDocument, then {success: true}
DeleteVectors(r) ==
    /\ del[r].pc = "deleteVectors"
    /\ VectorDelete(r, "documentId", del[r].documentId)
    /\ UNCHANGED <<store, collection, config, ing, qry, cite, pure>>

\* VectorService.deleteByUserId, called for one user
DeleteByUserId(r, u) ==
    /\ del[r].pc = "idle"
    /\ VectorDelete(r, "userId", u)
    /\ UNCHANGED <<store, collection, config, ing, qry, cite, pure>>

\* ------------------------------------------------------------------------
\* Properties of ingestion (checked under Spec)
\* ------------------------------------------------------------------------
StatusCalls == {"status:processing", "status:completed", "status:failed"}

\* the status updates of an invocation that reached the documents table
StatusWrites(i) ==
    SelectSeq(ing[i].log, LAMBDA c : c.ok /\ c.call \in StatusCalls)

LastStatusWrite(i) ==
    IF StatusWrites(i) = <<>> THEN "none"
    ELSE StatusWrites(i)[Len(StatusWrites(i))].call

StatusCallOf(status) ==
    IF status = "completed" THEN "status:completed"
    ELSE IF status = "failed" THEN "status:failed"
    ELSE "none"

CallsMade(i) == {ing[i].log[j].call : j \in 1..Len(ing[i].log)}

\* the vectors of the index belong to the owner of their document
PointsCarryOwner ==
    \A p \in points : docs[p.documentId].owner = p.userId

\* C1: every invocation of ingestDocument that wrote 'processing' has, when
\* it returns, written 'completed' or 'failed' as its last status and returns
\* that status; the document is not left in 'processing'.
C1_IngestEndsInReturnedStatus ==
    \A i \in IngestIds :
        (ing[i].pc = "done" /\ Call("status:processing", TRUE) \in
                                   {ing[i].log[j] : j \in 1..Len(ing[i].log)})
        => /\ LastStatusWrite(i) \in {"status:completed", "status:failed"}
           /\ LastStatusWrite(i) = StatusCallOf(ing[i].result.status)

\* C2: the status of a document only moves forward: once 'completed' or
\* 'failed' it is never written back to 'processing' or 'pending'.
C2_StatusNeverReverts ==
    [][\A d \in DocIds :
          docs[d].status \in {"completed", "failed"}
          => docs'[d].status \notin {"processing", "pending"}]_vars

\* C3: a document whose extracted text is empty or only whitespace yields
\* zero chunks; its ingestion returns 'failed' with chunksCreated 0 and the
\* empty-document error, writes 'failed' to the document and never
\* 'completed', and makes no embedding, chunk insert, vector upsert or
\* summary call.
C3_EmptyDocumentFails ==
    \A i \in IngestIds :
        (/\ ing[i].pc = "done"
         /\ "extractText" \in CallsMade(i)
         /\ Trim(ing[i].file.text) = <<>>)
        => /\ Len(ChunksOf(i)) = 0
           /\ ing[i].result = [status |-> "failed", chunksCreated |-> 0,
                               error |-> "EmptyDocument"]
           /\ Call("status:failed", TRUE) \in
                  {ing[i].log[j] : j \in 1..Len(ing[i].log)}
           /\ "status:completed" \notin CallsMade(i)
           /\ CallsMade(i) \cap {"embedBatch", "insert:document_chunks",
                                 "getCollections", "createCollection", "upsert",
                                 "groq", "gemini"} = {}

\* C10: the lazy creation of the collection is safe under concurrency: a
\* caller that saw the collection absent and whose creation comes second
\* does not fail.
C10_DuplicateCreateTolerated ==
    \A i \in IngestIds : ing[i].error # "CollectionExists"

\* ------------------------------------------------------------------------
\* POST /api/query and RAGPipeline.query, one action per await
\* ------------------------------------------------------------------------
NoInfoAnswer ==
    {"could_not_find_relevant_information",
     "informational_purposes_only_not_legal_advice"}

\* variant: the search is never scoped to the caller
PipelineFilter_NoOwner(documentId, userId) ==
    [documentId |-> documentId, userId |-> NoUser]

\* pipeline line 174: filter: documentId ? { documentId } : { userId }
PipelineFilter(documentId, userId) ==
    IF documentId # NoDoc
    THEN [documentId |-> documentId, userId |-> NoUser]
    ELSE [documentId |-> NoDoc, userId |-> userId]

\* VectorService.search lines 115-132: one must-condition per filter field set
Matches(p, filter) ==
    /\ filter.documentId # NoDoc => p.documentId = filter.documentId
    /\ filter.userId # NoUser => p.userId = filter.userId

RECURSIVE Orderings(_)
Orderings(S) ==
    IF S = {} THEN {<<>>}
    ELSE UNION {{<<x>> \o r : r \in Orderings(S \ {x})} : x \in S}

\* what client.search may return: min(limit, matching) distinct matching
\* points with their scores, by descending score
SearchOutcomes(filter, limit) ==
    LET matching == {p \in points : Matches(p, filter)}
        n == Min(limit, Cardinality(matching))
    IN  UNION { { [j \in 1..n |-> [point |-> ord[j], score |-> sc[j]]] :
                    sc \in {f \in [1..n -> ScoreValues] :
                               \A j \in 1..(n - 1) : f[j] >= f[j + 1]} } :
                ord \in UNION {Orderings(T) :
                                 T \in {X \in SUBSET matching : Cardinality(X) = n}} }

\* VectorService.search lines 150-163
ToSearchResult(hit) ==
    [id |-> hit.point.id,
     content |-> hit.point.content,
     score |-> hit.score,
     documentId |-> hit.point.documentId,
     userId |-> hit.point.userId,
     chunkIndex |-> hit.point.chunkIndex,
     section |-> hit.point.section]

Rejected(k, code) ==
    [qry[k] EXCEPT !.pc = "done", !.response = [code |-> code]]

\* RAGPipeline.query rethrows what a call threw and the route answers 500
QueryAfterCall(k, name, ok, next, err) ==
    IF ok
    THEN [qry[k] EXCEPT !.pc = next, !.log = Logged(qry[k], name, TRUE)]
    ELSE [qry[k] EXCEPT !.pc = "done", !.log = Logged(qry[k], name, FALSE),
                        !.error = err, !.response = [code |-> 500]]

\* an error thrown before any call went out: the route answers 500
Thrown(k, err) == [Rejected(k, 500) EXCEPT !.error = err]

\* route lines 62-83: the document named by the request is the caller's own
\* and completed; 0 when the request passes
DocumentGate(u, d) ==
    IF d = NoDoc THEN 0
    ELSE IF ~Present(d) \/ docs[d].owner # u THEN 404
    ELSE IF docs[d].status # "completed" THEN 400
    ELSE 0

\* route lines 28-36: the count of the caller's 'query' usage events as the
\* route sees it; the select returns count null when it fails and the route
\* reads (count || 0)
CountSeen(u, ok) == IF ok THEN UsageCount(u, "query") ELSE 0

\* the outcomes of the count select: it is not made for a caller who is not
\* authenticated, and below the limit a failed select (count read as 0)
\* passes the gate exactly as a successful one does
CountOutcomes(u) ==
    IF u = NoUser THEN {TRUE}
    ELSE IF UsageCount(u, "query") < QUERY_MONTHLY_LIMIT THEN {TRUE}
    ELSE Outcomes

\* route lines 13-83: the status the route answers with before it calls the
\* pipeline, 0 when the request passes; request.json() throws on a body that
\* is not JSON and the catch block answers 500
Gates(u, count, body, d) ==
    IF u = NoUser THEN 401
    ELSE IF count >= QUERY_MONTHLY_LIMIT THEN 429
    ELSE IF body = "malformed" THEN 500
    ELSE IF body = "invalid" THEN 400
    ELSE DocumentGate(u, d)

\* route lines 13-86: the gates, then ragPipeline.query up to its first await
\* (embed, which computes the hash embedding locally)
QueryPost(k, u, body, d) ==
    /\ qry[k].pc = "idle"
    /\ \A j \in QueryIds : j < k => qry[j].pc # "idle"
    /\ \E ok \in CountOutcomes(u) :
         /\ qry' = [qry EXCEPT ![k] =
              The({IF code = 0
                   THEN [IdleQuery EXCEPT !.pc = "search", !.user = u,
                                          !.documentId = d,
                                          !.log = <<Call("embed", TRUE)>>]
                   ELSE IF code = 500 THEN Thrown(k, "MalformedBody")
                   ELSE Rejected(k, code) :
                      code \in {Gates(u, IF u = NoUser THEN 0 ELSE CountSeen(u, ok),
                                      body, d)}})]
         /\ Fault(ok)
    /\ UNCHANGED <<store, collection, points, config, ing, cite, del, pure>>

\* VectorService.search lines 106-111 and initialize lines 44-54
SearchGetCollections(k) ==
    /\ qry[k].pc = "search"
    /\ IF ~qdrantClient
       THEN /\ qry' = [qry EXCEPT ![k] = Thrown(k, NotConfiguredError)]
            /\ UNCHANGED faults
       ELSE \E ok \in Outcomes :
              /\ qry' = [qry EXCEPT ![k] =
                    QueryAfterCall(k, "getCollections", ok,
                                   AfterGetCollections(collection, "searchPoints"),
                                   "VectorStoreFailure")]
              /\ Fault(ok)
    /\ UNCHANGED <<store, collection, points, config, ing, cite, del, pure>>

\* VectorService.initialize lines 56-69 under search
SearchCreateCollection(k) ==
    /\ qry[k].pc = "createCollection"
    /\ IF ~CreateAccepted(collection)
       THEN /\ qry' = [qry EXCEPT ![k] =
                    QueryAfterCall(k, "createCollection", FALSE, "done",
                                   "CollectionExists")]
            /\ UNCHANGED <<collection, faults>>
       ELSE \E ok \in Outcomes :
              /\ collection' = (collection \/ ok)
              /\ qry' = [qry EXCEPT ![k] =
                    QueryAfterCall(k, "createCollection", ok, "searchPoints",
                                   "VectorStoreFailure")]
              /\ Fault(ok)
    /\ UNCHANGED <<store, points, config, ing, cite, del, pure>>

\* variant: the fixed answer reported with full confidence
NoResultsResponse_Confident ==
    [code |-> 200, answer |-> NoInfoAnswer, citations |-> <<>>,
     confidence |-> [num |-> ScoreOne, den |-> 1]]

\* pipeline lines 177-186: the fixed answer on zero results
NoResultsResponse ==
    [code |-> 200, answer |-> NoInfoAnswer, citations |-> <<>>,
     confidence |-> ZeroConfidence]

\* variant: the usage event is recorded for a query without results
AfterSearch_Tracked(k, searchResults) ==
    IF Len(searchResults) = 0
    THEN [qry[k] EXCEPT !.pc = "trackUsage",
                        !.log = Logged(qry[k], "search", TRUE),
                        !.response = NoResultsResponse]
    ELSE [qry[k] EXCEPT !.pc = "generate",
                        !.log = Logged(qry[k], "search", TRUE),
                        !.results = searchResults,
                        !.context = buildContext(searchResults)]

\* pipeline lines 177-190: after the search has returned
AfterSearch(k, searchResults) ==
    IF Len(searchResults) = 0
    THEN [qry[k] EXCEPT !.pc = "done",
                        !.log = Logged(qry[k], "search", TRUE),
                        !.response = NoResultsResponse]
    ELSE [qry[k] EXCEPT !.pc = "generate",
                        !.log = Logged(qry[k], "search", TRUE),
                        !.results = searchResults,
                        !.context = buildContext(searchResults)]

\* client.search (vector lines 140-163) and pipeline lines 177-190
SearchPoints(k) ==
    /\ qry[k].pc = "searchPoints"
    /\ \/ /\ \E hits \in SearchOutcomes(PipelineFilter(qry[k].documentId, qry[k].user),
                                        DefaultTopK) :
               qry' = [qry EXCEPT ![k] =
                         AfterSearch(k, [j \in 1..Len(hits) |-> ToSearchResult(hits[j])])]
          /\ UNCHANGED faults
       \/ /\ FALSE \in Outcomes
          /\ qry' = [qry EXCEPT ![k] = QueryAfterCall(k, "search", FALSE, "done",
                                                   "VectorStoreFailure")]
          /\ Fault(FALSE)
    /\ UNCHANGED <<store, collection, points, config, ing, cite, del, pure>>

\* pipeline lines 193-209: llmService.answerWithContext
Generate(k) ==
    /\ qry[k].pc = "generate"
    /\ IF getDefaultProvider = "none"
       THEN /\ qry' = [qry EXCEPT ![k] = Thrown(k, "NoProviderConfigured")]
            /\ UNCHANGED faults
       ELSE \E ok \in Outcomes :
              /\ qry' = [qry EXCEPT ![k] =
                    [QueryAfterCall(k, getDefaultProvider, ok, "insertQuery",
                                    "GenerationFailure") EXCEPT
                        !.answer = IF ok THEN {"generated"} ELSE {}]]
              /\ Fault(ok)
    /\ UNCHANGED <<store, collection, points, config, ing, cite, del, pure>>

\* pipeline lines 218-227: the row handed to queries.insert
QueryRecord(k) ==
    [user_id |-> qry[k].user,
     document_id |-> qry[k].documentId,
     response_text |-> qry[k].answer,
     citations |-> extractCitations(qry[k].results),
     confidence_score |-> Confidence(qry[k].results)]

\* pipeline lines 212-227: confidence and the insert of the query record
InsertQuery(k) ==
    /\ qry[k].pc = "insertQuery"
    /\ \E ok \in Outcomes :
         /\ queries' = IF ok THEN Append(queries, QueryRecord(k)) ELSE queries
         /\ qry' = [qry EXCEPT ![k].pc = "trackUsage",
                               ![k].log = Logged(qry[k], "insert:queries", ok)]
         /\ Fault(ok)
    /\ UNCHANGED <<docs, chunkRows, usage, collection, points, config, ing, cite, del, pure>>

\* pipeline lines 240-246 and route lines 88-95
QueryResponse(k) ==
    [code |-> 200, answer |-> qry[k].answer,
     citations |-> extractCitations(qry[k].results),
     confidence |-> Confidence(qry[k].results)]

\* pipeline lines 230-246: the usage event and the response
TrackQuery(k) ==
    /\ qry[k].pc = "trackUsage"
    /\ \E ok \in Outcomes :
         /\ usage' = UsageInserted(qry[k].user, "query", ok)
         /\ qry' = [qry EXCEPT
                ![k].pc = "done",
                ![k].log = Logged(qry[k], "insert:usage_tracking", ok),
                ![k].response = QueryResponse(k)]
         /\ Fault(ok)
    /\ UNCHANGED <<docs, chunkRows, queries, collection, points, config, ing, cite, del, pure>>

\* The stores as earlier uploads left them: each document is absent, or was
\* ingested for its owner and is completed (its vectors upserted), or failed
\* after or before the upsert of its vectors
SeededDocs ==
    {AbsentDoc} \cup
    {[status |-> st, owner |-> u, file |-> SampleFile] :
        st \in {"completed", "failed"}, u \in Users}

\* the documents earlier uploads may have created: one or two, so that a
\* user's own document can stand beside another user's; users being
\* interchangeable, the first document is "u1"'s
SeededIds == {1, 2}

\* the earlier run that ingested a seeded document: none of IngestIds, its
\* chunk ids (uuids) are those of no later run
SeedRun(d) == 0 - d

\* the documents, chunk records and vectors earlier uploads left behind
SeededStores ==
    /\ docs \in {f \in [DocIds -> SeededDocs] :
                    /\ \A d \in DocIds \ SeededIds : f[d].status = "absent"
                    /\ f[1].owner \in {NoUser, "u1"}
                    /\ \A d \in DocIds : f[d].status = "absent" =>
                          \A e \in DocIds : e > d => f[e].status = "absent"}
    /\ \E indexed \in SUBSET {d \in DocIds : docs[d].status # "absent"} :
         /\ \A d \in DocIds : docs[d].status = "completed" => d \in indexed
         /\ points = UNION {VectorDocsFor(SeedRun(d), d, docs[d].owner, ChunksOfFile(docs[d].file)) :
                               d \in indexed}
         /\ chunkRows = UNION {ChunkRecordsFor(SeedRun(d), d, ChunksOfFile(docs[d].file)) :
                                  d \in indexed}
    /\ collection \in (IF points = {} THEN BOOLEAN ELSE {TRUE})
    /\ queries = <<>>

InitQuery ==
    /\ SeededStores
    /\ usage = [e \in Users \X ActionTypes |-> 0]
    /\ ConfigInit
    /\ IdleInit
    /\ pure = NoPure

NextQuery ==
    \/ \E k \in QueryIds, u \in Users \cup {NoUser}, body \in Bodies,
          d \in DocIds \cup {NoDoc} : QueryPost(k, u, body, d)
    \/ \E k \in QueryIds : SearchGetCollections(k)
    \/ \E k \in QueryIds : SearchCreateCollection(k)
    \/ \E k \in QueryIds : SearchPoints(k)
    \/ \E k \in QueryIds : Generate(k)
    \/ \E k \in QueryIds : InsertQuery(k)
    \/ \E k \in QueryIds : TrackQuery(k)

\* the query side: POST /api/query requests against seeded stores
SpecQuery == InitQuery /\ [][NextQuery]_vars

\* the stores as at most one earlier upload left them: document 1 is absent,
\* or was ingested and completed; the collection is absent while nothing
\* was ever indexed
InitDelete ==
    /\ InitQuery
    /\ docs[1].status \in {"absent", "completed"}
    /\ \A d \in DocIds \ {1} : docs[d].status = "absent"
    /\ points = {} => ~collection

DeleteIngestIds == 1..MaxDeleteIngest

NextDelete ==
    \/ \E i \in DeleteIngestIds, u \in Users, f \in InputFiles : UploadPost(i, u, f)
    \/ \E i \in DeleteIngestIds, d \in DocIds : Reingest(i, d)
    \/ \E i \in DeleteIngestIds : MarkProcessing(i)
    \/ \E i \in DeleteIngestIds : ExtractChunkEmbed(i)
    \/ \E i \in DeleteIngestIds : InsertChunks(i)
    \/ \E i \in DeleteIngestIds : UpsertGetCollections(i)
    \/ \E i \in DeleteIngestIds : UpsertCreateCollection(i)
    \/ \E i \in DeleteIngestIds : UpsertPoints(i)
    \/ \E i \in DeleteIngestIds : Summarize(i)
    \/ \E i \in DeleteIngestIds : MarkCompleted(i)
    \/ \E i \in DeleteIngestIds : TrackUpload(i)
    \/ \E i \in DeleteIngestIds : IngestCatch(i)
    \/ NextQuery
    \/ \E r \in DeleteIds, u \in Users \cup {NoUser}, d \in DocIds : DeletePost(r, u, d)
    \/ \E r \in DeleteIds : DeleteRow(r)
    \/ \E r \in DeleteIds : DeleteVectors(r)
    \/ \E r \in DeleteIds, u \in Users : DeleteByUserId(r, u)

\* one upload or re-ingestion, one query and one deletion side by side
SpecDelete == InitDelete /\ [][NextDelete]_vars

\* ------------------------------------------------------------------------
\* extractCitations applied to one search result
\* ------------------------------------------------------------------------
ContentOfLen(n) == [i \in 1..n |-> LowerChars[(i % 26) + 1]]

ResultWithContent(content) ==
    [id |-> <<1, 1>>, content |-> content, score |-> 1, documentId |-> 1,
     userId |-> "u1", chunkIndex |-> 0, section |-> NoLabel]

InitPreview ==
    /\ docs = [d \in DocIds |-> AbsentDoc]
    /\ chunkRows = {}
    /\ queries = <<>>
    /\ usage = [e \in Users \X ActionTypes |-> 0]
    /\ collection = FALSE
    /\ points = {}
    /\ qdrantClient = FALSE
    /\ groqClient = FALSE
    /\ geminiClient = FALSE
    /\ ing = [i \in IngestIds |-> IdleIngest]
    /\ qry = [k \in QueryIds |-> IdleQuery]
    /\ faults = 0
    /\ cite \in {[pc |-> "input", content |-> ContentOfLen(n), preview |-> <<>>] :
                    n \in 0..MaxContentLen}
    /\ del = [r \in DeleteIds |-> IdleDelete]
    /\ pure = NoPure

ExtractCitation ==
    /\ cite.pc = "input"
    /\ cite' = [cite EXCEPT
                  !.pc = "done",
                  !.preview = extractCitations(<<ResultWithContent(cite.content)>>)[1].content]
    /\ UNCHANGED <<store, collection, points, config, ing, qry, faults, del, pure>>

NextPreview == ExtractCitation

SpecPreview == InitPreview /\ [][NextPreview]_vars

\* ------------------------------------------------------------------------
\* Properties of the query path (checked under SpecQuery)
\* ------------------------------------------------------------------------
Answered(k) == qry[k].response.code = 200

QueryCalls(k) == {qry[k].log[j].call : j \in 1..Len(qry[k].log)}

\* C4: every citation returned to a user derives from a chunk indexed with
\* that user as owner, in a document of that user.
C4_NoCrossUserLeakage ==
    \A k \in QueryIds :
        Answered(k) =>
            /\ Len(qry[k].response.citations) = Len(qry[k].results)
            /\ \A j \in 1..Len(qry[k].response.citations) :
                 /\ docs[qry[k].response.citations[j].source].owner = qry[k].user
                 /\ \E p \in points :
                      /\ p.id = qry[k].results[j].id
                      /\ p.userId = qry[k].user
                      /\ p.documentId = qry[k].response.citations[j].source

C4_Witness ==
    \E k \in QueryIds :
        /\ Answered(k)
        /\ qry[k].documentId = NoDoc
        /\ qry[k].response.citations # <<>>
        /\ \E p \in points : p.userId # qry[k].user

\* C5: when the search returns no result the query returns the fixed answer
\* with the disclaimer, confidence 0 and no citations, without a call to a
\* generation provider and without failing.
C5_NoResultsFixedAnswer ==
    \A k \in QueryIds :
        (qry[k].pc = "done" /\ "search" \in QueryCalls(k) /\ qry[k].results = <<>>
         /\ Call("search", FALSE) \notin {qry[k].log[j] : j \in 1..Len(qry[k].log)})
        => /\ qry[k].response.code = 200
           /\ "could_not_find_relevant_information" \in qry[k].response.answer
           /\ "informational_purposes_only_not_legal_advice" \in qry[k].response.answer
           /\ qry[k].response.confidence.num = 0
           /\ qry[k].response.citations = <<>>
           /\ QueryCalls(k) \cap {"groq", "gemini"} = {}

C5_Witness ==
    \E k \in QueryIds :
        /\ qry[k].pc = "done"
        /\ qry[k].log # <<>>
        /\ qry[k].log[Len(qry[k].log)] = Call("search", TRUE)
        /\ qry[k].results = <<>>
        /\ points # {}

C9_AnsweredQueryIsRecorded ==
    \A k \in QueryIds :
        /\ (Answered(k) /\ qry[k].response.citations # <<>>)
           => /\ \E r \in 1..Len(queries) :
                   /\ queries[r].user_id = qry[k].user
                   /\ queries[r].response_text = qry[k].response.answer
                   /\ queries[r].citations = qry[k].response.citations
                   /\ queries[r].confidence_score = qry[k].response.confidence
              /\ UsageCount(qry[k].user, "query") >= 1
        /\ qry[k].response.code = 500
           => QueryCalls(k) \cap {"insert:queries", "insert:usage_tracking"} = {}

\* ------------------------------------------------------------------------
\* Properties of the citation preview (checked under SpecPreview)
\* ------------------------------------------------------------------------
\* C8 as stated: the preview of a citation is at most 200 characters long,
\* the ellipsis included.
C8_PreviewWithinLimit ==
    cite.pc = "done" => Len(cite.preview) <= PreviewLimit

\* C8: the preview of a citation is the content itself when the content has
\* at most 200 characters, and otherwise its first 200 characters followed by
\* a three-character ellipsis, 203 characters in all.
C8_PreviewIsPrefixPlusEllipsis ==
    cite.pc = "done" =>
        IF Len(cite.content) <= PreviewLimit
        THEN cite.preview = cite.content
        ELSE /\ Len(cite.preview) = PreviewLimit + 3
             /\ SubSeq(cite.preview, 1, PreviewLimit) = SubSeq(cite.content, 1, PreviewLimit)
             /\ SubSeq(cite.preview, PreviewLimit + 1, PreviewLimit + 3) = <<".", ".", ".">>

C8_Witness ==
    cite.pc = "done" /\ Len(cite.content) > PreviewLimit

\* ------------------------------------------------------------------------
\* Properties of deletion and of the vector service
\* ------------------------------------------------------------------------
\* DELETE has answered {success: true} for document d
DeleteSucceeded(r, d) ==
    /\ del[r].pc = "done"
    /\ del[r].documentId = d
    /\ del[r].response.code = 200

\* C11: once DELETE /api/documents/{id} has returned success, no chunk
\* record and no vector carries that documentId in any later state, also
\* when an ingestDocument for the document completes after the delete
C11_DeletedDocumentLeavesNothing ==
    \A r \in DeleteIds, d \in DocIds :
        DeleteSucceeded(r, d) =>
            /\ \A row \in chunkRows : row.document_id # d
            /\ \A p \in points : p.documentId # d

\* ------------------------------------------------------------------------
\* Properties of ingestion: stored chunks and vectors
\* ------------------------------------------------------------------------
RowsOf(d) == {row \in chunkRows : row.document_id = d}

PointsOf(d) == {p \in points : p.documentId = d}

\* invocation i has returned {status: 'completed'}
ReturnedCompleted(i) == ing[i].pc = "done" /\ ing[i].result.status = "completed"

\* C12: a second ingestDocument of a document with identical bytes returns
\* the same chunksCreated as the first, and the document has no more chunk
\* records and no more vectors after it than the one run created
C12_ReingestKeepsChunkCount ==
    \A i, j \in IngestIds :
        (i < j /\ ing[i].doc = ing[j].doc /\ ReturnedCompleted(i) /\ ReturnedCompleted(j)) =>
            /\ ing[j].result.chunksCreated = ing[i].result.chunksCreated
            /\ Cardinality(RowsOf(ing[i].doc)) <= ing[i].result.chunksCreated
            /\ Cardinality(PointsOf(ing[i].doc)) <= ing[i].result.chunksCreated

\* ------------------------------------------------------------------------
\* DocumentProcessor.extractText
\* ------------------------------------------------------------------------
\* a byte outside \x20-\x7E that is not white space
BinaryByte == "<80>"

\* the characters of [\x20-\x7E\s] that the buffers below are made of
ReadableSet == UpperSet \cup LowerSet \cup DigitSet \cup SpaceSet \cup {"(", ")", ".", ","}

\* extractFromPDF line 115: the recovered text must be longer than this
FallbackMinLength == 50

\* the length of the run of characters other than c that starts at from
RECURSIVE RunNot(_, _, _)
RunNot(s, from, c) ==
    IF from < 1 \/ from > Len(s) THEN 0
    ELSE IF s[from] # c THEN 1 + RunNot(s, from + 1, c)
    ELSE 0

\* the captures of /\(([^)]+)\)/g in s, searching from position from
RECURSIVE ParenMatches(_, _)
ParenMatches(s, from) ==
    IF from > Len(s) THEN <<>>
    ELSE IF s[from] # "(" THEN ParenMatches(s, from + 1)
    ELSE The({IF n > 0 /\ from + n + 1 <= Len(s)
              THEN <<SubSeq(s, from + 1, from + n)>> \o ParenMatches(s, from + n + 2)
              ELSE ParenMatches(s, from + 1) :
                 n \in {RunNot(s, from + 1, ")")}})

\* line 143: /^[\x20-\x7E\s]+$/.test(text) && text.length > 2
Readable(text) ==
    /\ Len(text) > 2
    /\ \A j \in 1..Len(text) : text[j] \in ReadableSet

\* lines 134-150
extractTextFromPDFBuffer(buffer) ==
    Trim(CollapseWs(JoinSp(SelectSeq(ParenMatches(buffer, 1), Readable))))

ToLowerAll(s) == [j \in 1..Len(s) |-> ToLower(s[j])]

Extracted(text, calls) == [ok |-> TRUE, text |-> text, error |-> "none", calls |-> calls]

ExtractFailed(error, calls) == [ok |-> FALSE, text |-> <<>>, error |-> error, calls |-> calls]

\* lines 79-131: pdf-parse, and on its failure the scan of the buffer
extractFromPDF(buffer, parsed, parserOk) ==
    IF parserOk THEN Extracted(parsed, <<"pdfParse">>)
    ELSE The({IF Len(textContent) > FallbackMinLength
              THEN Extracted(textContent, <<"pdfParse", "extractTextFromPDFBuffer">>)
              ELSE ExtractFailed("Failed to extract text from PDF",
                                 <<"pdfParse", "extractTextFromPDFBuffer">>) :
                 textContent \in {extractTextFromPDFBuffer(buffer)}})

\* lines 152-167: mammoth, and on its failure the error
extractFromDOCX(buffer, parsed, parserOk) ==
    IF parserOk THEN Extracted(parsed, <<"mammoth">>)
    ELSE ExtractFailed("Failed to extract text from DOCX", <<"mammoth">>)

PdfTypes == {<<"p", "d", "f">>, <<"a", "p", "p", "l", "i", "c", "a", "t", "i", "o", "n", "/", "p", "d", "f">>}

DocxTypes == {<<"d", "o", "c", "x">>,
              <<"a", "p", "p", "l", "i", "c", "a", "t", "i", "o", "n", "/", "v", "n", "d", ".", "o", "p", "e", "n", "x", "m", "l", "f", "o", "r", "m", "a", "t", "s", "-", "o", "f", "f", "i", "c", "e", "d", "o", "c", "u", "m", "e", "n", "t", ".", "w", "o", "r", "d", "p", "r", "o", "c", "e", "s", "s", "i", "n", "g", "m", "l", ".", "d", "o", "c", "u", "m", "e", "n", "t">>}

TxtTypes == {<<"t", "x", "t">>, <<"t", "e", "x", "t", "/", "p", "l", "a", "i", "n">>}

\* lines 55-77
extractText(buffer, fileType, parsed, parserOk) ==
    IF ToLowerAll(fileType) \in PdfTypes THEN extractFromPDF(buffer, parsed, parserOk)
    ELSE IF ToLowerAll(fileType) \in DocxTypes THEN extractFromDOCX(buffer, parsed, parserOk)
    ELSE IF ToLowerAll(fileType) \in TxtTypes THEN Extracted(buffer, <<>>)
    ELSE ExtractFailed("Unsupported file type", <<>>)

\* n copies of character c
Repeat(c, n) == [j \in 1..n |-> c]

\* "(" text ")" as a PDF string object
Group(text) == <<"(">> \o text \o <<")">>

\* the buffers extractText is applied to: their scans recover nothing, a
\* string at and just over the threshold in one or in several objects, a
\* string with a binary byte, one that is mostly white space, an empty and an
\* unclosed object
ExtractBuffers ==
    { <<>>,
      Group(<<"a", "b">>),
      Group(Repeat("a", FallbackMinLength)),
      Group(Repeat("a", FallbackMinLength + 1)),
      Group(Repeat("a", 25)) \o <<"x">> \o Group(Repeat("b", 25)),
      Group(Repeat("a", 16)) \o Group(Repeat("b", 16)) \o Group(Repeat("c", 16)),
      Group(Repeat("a", 30) \o <<BinaryByte>> \o Repeat("a", 30)),
      Group(Repeat(" ", 30) \o <<"a", "b", "c">> \o Repeat("\n", 30)),
      <<"(", ")">> \o Group(Repeat("a", 51)) \o <<"(", "a", "b", "c">> }

ExtractTypes ==
    PdfTypes \cup DocxTypes \cup TxtTypes \cup {<<"P", "D", "F">>, <<"D", "o", "c", "x">>, <<"r", "t", "f">>}

\* what the parser of the format returns when it succeeds
ParsedText == <<"P", "a", "y", ".">>

InitExtract ==
    /\ docs = [d \in DocIds |-> AbsentDoc]
    /\ chunkRows = {}
    /\ queries = <<>>
    /\ usage = [e \in Users \X ActionTypes |-> 0]
    /\ collection = FALSE
    /\ points = {}
    /\ qdrantClient = FALSE
    /\ groqClient = FALSE
    /\ geminiClient = FALSE
    /\ IdleInit
    /\ pure \in {[pc |-> "input", op |-> "extractText", buffer |-> b, fileType |-> t,
                   parserOk |-> ok] :
                     b \in ExtractBuffers, t \in ExtractTypes, ok \in BOOLEAN}

ExtractText ==
    /\ pure.pc = "input"
    /\ pure.op = "extractText"
    /\ pure' = [pc |-> "done", op |-> "extractText", buffer |-> pure.buffer,
                fileType |-> pure.fileType, parserOk |-> pure.parserOk,
                out |-> extractText(pure.buffer, pure.fileType, ParsedText, pure.parserOk)]
    /\ UNCHANGED <<store, collection, points, config, ing, qry, faults, cite, del>>

NextExtract == ExtractText

\* extractText applied once to a buffer, a file type and a parser outcome
SpecExtract == InitExtract /\ [][NextExtract]_vars

StructuredTypes == PdfTypes \cup DocxTypes

FallbackCalls(calls) == SelectSeq(calls, LAMBDA c : c = "extractTextFromPDFBuffer")

\* C13: for PDF and DOCX alike, when the primary parser fails extractText
\* runs the scan of the buffer exactly once, and it returns the recovered
\* text exactly when that text is longer than 50 characters
C13_FallbackBeforeFailure ==
    (/\ pure.pc = "done"
     /\ pure.op = "extractText"
     /\ ToLowerAll(pure.fileType) \in StructuredTypes
     /\ ~pure.parserOk) =>
        /\ Len(FallbackCalls(pure.out.calls)) = 1
        /\ pure.out.ok <=> Len(extractTextFromPDFBuffer(pure.buffer)) > FallbackMinLength
        /\ pure.out.ok => pure.out.text = extractTextFromPDFBuffer(pure.buffer)

\* ------------------------------------------------------------------------
\* The monthly upload limit
\* ------------------------------------------------------------------------
\* the uploads of the month that earlier requests of a user had accepted,
\* ingested and tracked: one short of the limit
PriorUploads == UPLOAD_MONTHLY_LIMIT - 1

InitQuota ==
    /\ docs = [d \in DocIds |-> AbsentDoc]
    /\ chunkRows = {}
    /\ queries = <<>>
    /\ usage = [e \in Users \X ActionTypes |->
                    IF e[2] = "document_upload" THEN PriorUploads ELSE 0]
    /\ collection = FALSE
    /\ points = {}
    /\ ConfigInit
    /\ IdleInit
    /\ pure = NoPure

\* uploads and ingestDocument invocations late in a month
SpecQuota == InitQuota /\ [][Next]_vars

\* the uploads of user u that the route accepted in the model: each created
\* one document record
AcceptedUploads(u) == Cardinality({d \in DocIds : Present(d) /\ docs[d].owner = u})

\* C14: within the month the upload route accepts at most 10 uploads of one
\* user, whatever the order of the requests and of their ingestions
C14_UploadLimitHolds ==
    \A u \in Users : PriorUploads + AcceptedUploads(u) <= UPLOAD_MONTHLY_LIMIT

\* ------------------------------------------------------------------------
\* Properties of the calls to external dependencies
\* ------------------------------------------------------------------------
\* the calls of ingestDocument and of query to extraction, embedding, chunk
\* persistence, the vector index and generation
DependencyCalls ==
    {"extractText", "embedBatch", "embed", "insert:document_chunks",
     "getCollections", "createCollection", "upsert", "search", "groq", "gemini"}

TimesCalled(log, name) == Len(SelectSeq(log, LAMBDA c : c.call = name))

DependencyFailed(log) ==
    \E j \in 1..Len(log) : log[j].call \in DependencyCalls /\ ~log[j].ok

NoRetry(log) ==
    /\ \A name \in DependencyCalls : TimesCalled(log, name) <= 1
    /\ TimesCalled(log, "groq") + TimesCalled(log, "gemini") <= 1

\* C15: within one invocation each external dependency is called at most
\* once, a failed generation call is not followed by a call to the other
\* provider, and a failed call surfaces: ingestDocument returns status
\* failed with the error, query rethrows
C15_NoRetryFailureSurfaces ==
    /\ \A i \in IngestIds :
          /\ NoRetry(ing[i].log)
          /\ (ing[i].pc = "done" /\ DependencyFailed(ing[i].log)) =>
                /\ ing[i].result.status = "failed"
                /\ ing[i].result.error # "none"
    /\ \A k \in QueryIds :
          /\ NoRetry(qry[k].log)
          /\ (qry[k].pc = "done" /\ DependencyFailed(qry[k].log)) =>
                /\ qry[k].response.code = 500
                /\ qry[k].error # "none"

\* the vectors that invocation i upserted
VectorsOfRun(i) == {p \in points : p.id[1] = i}

\* C16: when ingestDocument has marked a document 'completed', every vector
\* it upserted has its chunk record, with the same id (also as vector_id),
\* chunk index and document; so a failed insert of the chunk records never
\* ends in upserted vectors and a completed document
C16_CompletedHasRecordsForVectors ==
    \A i \in IngestIds :
        LastStatusWrite(i) = "status:completed" =>
            \A p \in VectorsOfRun(i) :
                \E row \in chunkRows :
                    /\ row.id = p.id
                    /\ row.vector_id = p.id
                    /\ row.chunk_index = p.chunkIndex
                    /\ row.document_id = p.documentId

\* ------------------------------------------------------------------------
\* Properties of the vector service without a client
\* ------------------------------------------------------------------------
VectorBackendCalls == {"getCollections", "createCollection", "upsert", "search", "delete:points"}

CallsIn(log) == {log[j].call : j \in 1..Len(log)}

\* invocation i has called upsertVectors and the call has returned or thrown
UpsertReturned(i) ==
    /\ "insert:document_chunks" \in CallsIn(ing[i].log)
    /\ ing[i].pc \notin {"upsertVectors", "createCollection", "upsertPoints"}

\* request k has called search and the call has returned or thrown
SearchReturned(k) ==
    /\ "embed" \in CallsIn(qry[k].log)
    /\ qry[k].pc \notin {"search", "createCollection", "searchPoints"}

\* request r has called deleteByDocumentId or deleteByUserId and the call has
\* returned or thrown
DeleteReturned(r) ==
    /\ del[r].pc = "done"
    /\ del[r].documentId = NoDoc \/ "delete:documents" \in CallsIn(del[r].log)
    /\ del[r].response.code \notin {401, 404}
    /\ del[r].error # "DeleteFailed"

\* C17: without a client upsertVectors, search, deleteByDocumentId and
\* deleteByUserId throw the not-configured error and nothing is sent to the
\* store; with a client none of them throws that error, so a failure of the
\* store is told apart from it
C17_NotConfiguredIsDistinct ==
    /\ \A i \in IngestIds :
          /\ (~qdrantClient /\ UpsertReturned(i)) =>
                /\ ing[i].error = "NotConfigured"
                /\ CallsIn(ing[i].log) \cap VectorBackendCalls = {}
          /\ qdrantClient => ing[i].error # "NotConfigured"
    /\ \A k \in QueryIds :
          /\ (~qdrantClient /\ SearchReturned(k)) =>
                /\ qry[k].error = "NotConfigured"
                /\ CallsIn(qry[k].log) \cap VectorBackendCalls = {}
          /\ qdrantClient => qry[k].error # "NotConfigured"
    /\ \A r \in DeleteIds :
          /\ (~qdrantClient /\ DeleteReturned(r)) =>
                /\ del[r].error = "NotConfigured"
                /\ CallsIn(del[r].log) \cap VectorBackendCalls = {}
          /\ qdrantClient => del[r].error # "NotConfigured"

\* without a client an ingestion, a query and a deletion have each been
\* refused by the vector service
C17_Witness ==
    /\ ~qdrantClient
    /\ \E i \in IngestIds : UpsertReturned(i) /\ ing[i].error = "NotConfigured"
    /\ \E k \in QueryIds : SearchReturned(k) /\ qry[k].error = "NotConfigured"
    /\ \E r \in DeleteIds : DeleteReturned(r) /\ del[r].error = "NotConfigured"

\* ------------------------------------------------------------------------
\* Properties of provider selection
\* ------------------------------------------------------------------------
\* request k has called llmService.chat and the call has returned or thrown
GenerateReturned(k) == qry[k].results # <<>> /\ qry[k].pc # "generate"

\* C18: chat without an explicit provider calls Groq whenever Groq is
\* configured, Gemini only when Groq is not configured and Gemini is, and
\* with neither it throws the no-provider error and calls no backend
C18_ProviderPreference ==
    \A k \in QueryIds :
        /\ "groq" \in CallsIn(qry[k].log) => groqClient
        /\ "gemini" \in CallsIn(qry[k].log) => ~groqClient /\ geminiClient
        /\ GenerateReturned(k) =>
              IF groqClient THEN "groq" \in CallsIn(qry[k].log)
              ELSE IF geminiClient THEN "gemini" \in CallsIn(qry[k].log)
              ELSE /\ CallsIn(qry[k].log) \cap {"groq", "gemini"} = {}
                   /\ qry[k].error = "NoProviderConfigured"
                   /\ qry[k].response.code = 500

\* with both providers configured a query was answered by Groq
C18_Witness ==
    /\ groqClient
    /\ geminiClient
    /\ \E k \in QueryIds : Answered(k) /\ "groq" \in CallsIn(qry[k].log)

\* ------------------------------------------------------------------------
\* cosineSimilarity of the in-memory search of /api/test/query
\* ------------------------------------------------------------------------
RECURSIVE DotProduct(_, _)
DotProduct(a, b) ==
    IF a = <<>> \/ b = <<>> THEN 0
    ELSE Head(a) * Head(b) + DotProduct(Tail(a), Tail(b))

\* a score dot / sqrt(norms), norms being normA * normB, kept as the pair
Score(dot, norms) == [error |-> "none", dot |-> dot, norms |-> norms]

ZeroScore == Score(0, 1)

\* usage/route.ts lines 211-227
cosineSimilarity(a, b) ==
    IF Len(a) # Len(b) THEN ZeroScore
    ELSE IF DotProduct(a, a) * DotProduct(b, b) = 0 THEN ZeroScore
    ELSE Score(DotProduct(a, b), DotProduct(a, a) * DotProduct(b, b))

\* the vectors of up to MaxDim components
Vectors == UNION {[1..n -> {0 - 1, 0, 1}] : n \in 0..MaxDim}

InitCosine ==
    /\ docs = [d \in DocIds |-> AbsentDoc]
    /\ chunkRows = {}
    /\ queries = <<>>
    /\ usage = [e \in Users \X ActionTypes |-> 0]
    /\ collection = FALSE
    /\ points = {}
    /\ qdrantClient = FALSE
    /\ groqClient = FALSE
    /\ geminiClient = FALSE
    /\ IdleInit
    /\ pure \in {[pc |-> "input", op |-> "cosineSimilarity", a |-> a, b |-> b] :
                     a \in Vectors, b \in Vectors}

CosineSimilarity ==
    /\ pure.pc = "input"
    /\ pure.op = "cosineSimilarity"
    /\ pure' = [pc |-> "done", op |-> "cosineSimilarity", a |-> pure.a, b |-> pure.b,
                out |-> cosineSimilarity(pure.a, pure.b)]
    /\ UNCHANGED <<store, collection, points, config, ing, qry, faults, cite, del>>

NextCosine == CosineSimilarity

\* cosineSimilarity applied once to a query vector and a stored vector
SpecCosine == InitCosine /\ [][NextCosine]_vars

\* C19: a query vector and a stored vector of different dimensions give an
\* error, never a similarity score
C19_DimensionMismatchDetected ==
    (/\ pure.pc = "done"
     /\ pure.op = "cosineSimilarity"
     /\ Len(pure.a) # Len(pure.b)) => pure.out.error # "none"

\* ------------------------------------------------------------------------
\* chunkDocument on short and on long texts
\* ------------------------------------------------------------------------
\* the lines short texts are made of: headings, sentences, an empty line
ChunkLines ==
    { <<"S", "e", "c", "t", "i", "o", "n", " ", "1">>,
      <<"2", ".", " ", "T", "e", "r", "m", "s">>,
      <<"P", "a", "y", ".", " ", "N", "o", "w", ".">>,
      <<>> }

\* Array.prototype.join("\n")
RECURSIVE JoinLines(_)
JoinLines(ls) ==
    IF ls = <<>> THEN <<>>
    ELSE IF Len(ls) = 1 THEN ls[1]
    ELSE ls[1] \o <<"\n">> \o JoinLines(Tail(ls))

ShortTexts ==
    {JoinLines(ls) : ls \in UNION {[1..n -> ChunkLines] : n \in 0..MaxLines}}

\* a sentence of 400 characters: ten words of 39 letters and a full stop
LongSentence(c) ==
    JoinSp([w \in 1..10 |-> Repeat(c, 39)]) \o <<".">>

\* n sentences of 400 characters each
LongBody(n) ==
    JoinSp([j \in 1..n |-> LongSentence(LowerChars[j])])

\* texts of more than 4 * maxChunkSize characters: without a heading, under
\* one heading, and under a heading between two short sections
LongTexts ==
    UNION {{LongBody(n),
            JoinLines(<<<<"S", "e", "c", "t", "i", "o", "n", " ", "1">>, LongBody(n)>>),
            JoinLines(<<<<"S", "e", "c", "t", "i", "o", "n", " ", "1">>,
                        <<"P", "a", "y", ".">>,
                        <<"2", ".", " ", "T", "e", "r", "m", "s">>,
                        LongBody(n),
                        <<"S", "e", "c", "t", "i", "o", "n", " ", "3">>,
                        <<"N", "o", "w", ".">>>>)} :
              n \in 6..MaxSentences}

\* a sentence of 400 characters: twenty words of 19 letters and a full stop
MediumSentence(c) ==
    JoinSp([w \in 1..20 |-> Repeat(c, 19)]) \o <<".">>

\* n sentences of 400 characters each, of twenty words each
MediumBody(n) ==
    JoinSp([j \in 1..n |-> MediumSentence(LowerChars[j])])

\* texts of more than 4 * maxChunkSize characters whose chunks hold more
\* than chunkOverlap words: under one heading, on a line of its own and on
\* the line of the text
WordyTexts ==
    UNION {{JoinLines(<<<<"S", "e", "c", "t", "i", "o", "n", " ", "1">>, MediumBody(n)>>),
            <<"S", "e", "c", "t", "i", "o", "n", " ", "1", " ">> \o MediumBody(n)} :
              n \in 6..MaxSentences}

\* a sentence of n characters made of one word
WordSentence(c, n) ==
    Repeat(c, n - 1) \o <<".">>

\* texts of five sentences whose token estimate is maxChunkSize: 1997 and
\* 2000 characters without a heading, 2000 characters under a heading
BoundaryTexts ==
    {LongBody(4) \o <<" ">> \o WordSentence("e", 4 * maxChunkSize - 1607),
     LongBody(4) \o <<" ">> \o WordSentence("e", 4 * maxChunkSize - 1604),
     JoinLines(<<<<"S", "e", "c", "t", "i", "o", "n", " ", "1">>,
                 LongBody(4) \o <<" ">> \o WordSentence("e", 4 * maxChunkSize - 1614)>>)}

\* texts whose first sentence alone is over maxChunkSize tokens
HugeFirstTexts ==
    {WordSentence("a", 4 * maxChunkSize + 2) \o <<" ", "N", "o", "w", ".">>}

\* the two-section example, on one line and on two
ExampleText ==
    <<"S", "e", "c", "t", "i", "o", "n", " ", "1", ":", " ", "P",
    "a", "y", "m", "e", "n", "t", " ", "i", "s", " ", "d", "u",
    "e", " ", "w", "i", "t", "h", "i", "n", " ", "3", "0", " ",
    "d", "a", "y", "s", ".", " ", "S", "e", "c", "t", "i", "o",
    "n", " ", "2", ":", " ", "T", "e", "r", "m", "i", "n", "a",
    "t", "i", "o", "n", " ", "r", "e", "q", "u", "i", "r", "e",
    "s", " ", "3", "0", " ", "d", "a", "y", "s", " ", "n", "o",
    "t", "i", "c", "e", ".">>

ExampleLines ==
    <<"S", "e", "c", "t", "i", "o", "n", " ", "1", ":", " ", "P",
    "a", "y", "m", "e", "n", "t", " ", "i", "s", " ", "d", "u",
    "e", " ", "w", "i", "t", "h", "i", "n", " ", "3", "0", " ",
    "d", "a", "y", "s", ".", "\n", "S", "e", "c", "t", "i", "o",
    "n", " ", "2", ":", " ", "T", "e", "r", "m", "i", "n", "a",
    "t", "i", "o", "n", " ", "r", "e", "q", "u", "i", "r", "e",
    "s", " ", "3", "0", " ", "d", "a", "y", "s", " ", "n", "o",
    "t", "i", "c", "e", ".">>

IngestTexts == {ExampleText, ExampleLines}

InitChunk ==
    /\ docs = [d \in DocIds |-> AbsentDoc]
    /\ chunkRows = {}
    /\ queries = <<>>
    /\ usage = [e \in Users \X ActionTypes |-> 0]
    /\ collection = FALSE
    /\ points = {}
    /\ qdrantClient = FALSE
    /\ groqClient = FALSE
    /\ geminiClient = FALSE
    /\ IdleInit
    /\ pure \in {[pc |-> "input", op |-> "chunkDocument", text |-> t] :
                     t \in ShortTexts \cup LongTexts \cup WordyTexts
                           \cup BoundaryTexts \cup HugeFirstTexts}
                 \cup {[pc |-> "input", op |-> "ingestText", text |-> t] :
                          t \in IngestTexts}

\* the state after chunkDocument(text): its sections, its chunks, and the
\* records and vector documents ingestDocument makes of the chunks
\* (pipeline lines 59-94) for run 1 of document 1 for "u1"
Chunked(op, raw, text) ==
    The({[pc |-> "done", op |-> op, raw |-> raw, text |-> text,
          sections |-> identifySections(text),
          out |-> chunks,
          chunkRecords |-> ChunkRecordsFor(1, 1, chunks),
          vectorDocs |-> VectorDocsFor(1, 1, "u1", chunks)] :
             chunks \in {chunkDocument(text)}})

\* chunkDocument applied to a text as it is
ChunkDocument ==
    /\ pure.pc = "input"
    /\ pure.op = "chunkDocument"
    /\ pure' = Chunked("chunkDocument", pure.text, pure.text)
    /\ UNCHANGED <<store, collection, points, config, ing, qry, faults, cite, del>>

\* normalizeText and then chunkDocument, as ingestDocument applies them to
\* the extracted text (pipeline lines 57-60)
NormalizeAndChunk ==
    /\ pure.pc = "input"
    /\ pure.op = "ingestText"
    /\ pure' = The({Chunked("ingestText", pure.text, t) :
                       t \in {normalizeText(pure.text)}})
    /\ UNCHANGED <<store, collection, points, config, ing, qry, faults, cite, del>>

NextChunk ==
    \/ ChunkDocument
    \/ NormalizeAndChunk

\* chunkDocument applied once to a text
SpecChunk == InitChunk /\ [][NextChunk]_vars

\* C20: the n chunks of a text have chunkIndex 0, 1, ..., n - 1 in output
\* order, whichever way they were cut, and the chunk record and the vector
\* document of each chunk carry its chunkIndex
C20_ChunkIndexSequential ==
    (pure.pc = "done" /\ pure.op = "chunkDocument") =>
        /\ \A k \in 1..Len(pure.out) : pure.out[k].chunkIndex = k - 1
        /\ Cardinality(pure.chunkRecords) = Len(pure.out)
        /\ Cardinality(pure.vectorDocs) = Len(pure.out)
        /\ \A rec \in pure.chunkRecords :
               rec.chunk_index = pure.out[rec.id[2]].chunkIndex
        /\ \A v \in pure.vectorDocs :
               v.chunkIndex = pure.out[v.id[2]].chunkIndex

\* a text with two chunks cut from one section that is too large and a
\* chunk that is a section that fits
C20_Witness ==
    /\ pure.pc = "done"
    /\ pure.op = "chunkDocument"
    /\ Len(pure.out) >= 4
    /\ \E k \in 1..(Len(pure.out) - 1) :
          /\ pure.out[k].section # NoLabel
          /\ pure.out[k + 1].section = pure.out[k].section
          /\ Len(pure.out[k].content) > 4 * maxChunkSize - 400
    /\ \E k \in 1..Len(pure.out) :
          /\ pure.out[k].section # NoLabel
          /\ estimateTokens(pure.out[k].content) <= 10

\* ------------------------------------------------------------------------
\* Chunk sizes, offsets and coverage
\* ------------------------------------------------------------------------
ChunkingDone == pure.pc = "done" /\ pure.op = "chunkDocument"

\* a chunk whose content is one sentence
SingleSentence(chunk) == Len(splitIntoSentences(chunk.content)) <= 1

\* C21: every chunk chunkDocument emits has a token estimate of at most
\* maxChunkSize, unless the chunk is a single sentence that is over the
\* limit by itself; a chunk made of overlap text and a further sentence is
\* not exempt.
C21_ChunksWithinLimit ==
    ChunkingDone =>
        \A k \in 1..Len(pure.out) :
            \/ estimateTokens(pure.out[k].content) <= maxChunkSize
            \/ SingleSentence(pure.out[k])

\* C22: a text whose token estimate is exactly maxChunkSize comes out as
\* exactly one chunk, under a heading or without one.
C22_ExactLimitIsOneChunk ==
    (ChunkingDone /\ estimateTokens(pure.text) = maxChunkSize) =>
        Len(pure.out) = 1

\* C23: the example text "Section 1: ... Section 2: ..." has exactly two
\* sections, with clause numbers "1" and "2", and exactly two chunks.
C23_ExampleHasTwoSections ==
    (pure.pc = "done" /\ pure.op = "ingestText" /\ pure.raw = ExampleText) =>
        /\ Len(pure.sections) = 2
        /\ pure.sections[1].clauseNumber = <<"1">>
        /\ pure.sections[2].clauseNumber = <<"2">>
        /\ Len(pure.out) = 2

\* the number of characters the spans [startChar, endChar) of two chunks
\* have in common
SpanOverlap(a, b) ==
    Max(0, Min(a.endChar, b.endChar) - Max(a.startChar, b.startChar))

\* the overlap window of a chunk: the text getOverlapText carries over from
\* it into the next chunk
OverlapWindow(chunk) == Len(getOverlapText(chunk.content))

\* C24: in a document with at least one recognized heading, the spans of two
\* consecutive chunks have no more characters in common than the overlap
\* window of the earlier one.
C24_SpansOverlapWithinWindow ==
    (ChunkingDone /\ pure.sections # <<>>) =>
        \A k \in 1..(Len(pure.out) - 1) :
            SpanOverlap(pure.out[k], pure.out[k + 1]) <= OverlapWindow(pure.out[k])

\* C25: every chunk has 0 <= startChar <= endChar <= length of the text.
C25_OffsetsWithinText ==
    ChunkingDone =>
        \A k \in 1..Len(pure.out) :
            /\ 0 <= pure.out[k].startChar
            /\ pure.out[k].startChar <= pure.out[k].endChar
            /\ pure.out[k].endChar <= Len(pure.text)

\* the words of a text
WordsOf(s) ==
    The({{ws[j] : j \in {i \in 1..Len(ws) : ws[i] # <<>>}} : ws \in {SplitWs(s)}})

PriorQueries == {QUERY_MONTHLY_LIMIT - 1, QUERY_MONTHLY_LIMIT}

InitGate ==
    /\ SeededStores
    /\ \E n \in PriorQueries :
         usage = [e \in Users \X ActionTypes |->
                     IF e = <<"u1", "query">> THEN n ELSE 0]
    /\ ConfigInit
    /\ IdleInit
    /\ pure = NoPure

\* POST /api/query requests of users near the monthly limit
SpecGate == InitGate /\ [][NextQuery]_vars

\* the answer the gates owe a request: 401, 429, 400, 404, 400 in this
\* order, 0 when the request is to reach ragPipeline.query
GateAnswer(u, body, d) ==
    IF u = NoUser THEN 401
    ELSE IF UsageCount(u, "query") >= QUERY_MONTHLY_LIMIT THEN 429
    ELSE IF body # "valid" THEN 400
    ELSE DocumentGate(u, d)

\* C27: a request reaches ragPipeline.query exactly when it is authenticated,
\* the caller's monthly 'query' count is below the limit, the body is valid
\* and a named document is the caller's own and completed; any other request
\* is answered by the first gate it fails, with no pipeline call made and no
\* store written.
C27_QueryOnlyAfterGates ==
    [][\A k \in QueryIds, u \in Users \cup {NoUser}, body \in Bodies,
          d \in DocIds \cup {NoDoc} :
          QueryPost(k, u, body, d) =>
              IF GateAnswer(u, body, d) = 0
              THEN qry'[k].pc = "search"
              ELSE /\ qry'[k].pc = "done"
                   /\ qry'[k].response.code = GateAnswer(u, body, d)
                   /\ qry'[k].log = <<>>
                   /\ UNCHANGED <<store, collection, points>>]_vars

\* ------------------------------------------------------------------------
\* Queries without search results
\* ------------------------------------------------------------------------
\* the search of query k returned and found nothing
ZeroResults(k) ==
    /\ Call("search", TRUE) \in {qry[k].log[j] : j \in 1..Len(qry[k].log)}
    /\ qry[k].results = <<>>

\* C28: a query whose search returns no result ends there: it inserts no
\* query record and no usage event, and the step that ends it leaves the
\* metadata store as it was.
C28_ZeroResultsWriteNothing ==
    /\ [](\A k \in QueryIds :
            ZeroResults(k) =>
               /\ qry[k].pc = "done"
               /\ QueryCalls(k) \cap {"insert:queries", "insert:usage_tracking"} = {})
    /\ [][\A k \in QueryIds :
             (~ZeroResults(k) /\ ZeroResults(k)') => UNCHANGED store]_vars

\* a query over a non-empty index that found nothing has been answered
C28_Witness ==
    \E k \in QueryIds :
        /\ ZeroResults(k)
        /\ qry[k].pc = "done"
        /\ qry[k].response = NoResultsResponse
        /\ qry[k].user \in Users
        /\ points # {}
        /\ queries = <<>>

\* ------------------------------------------------------------------------
\* What an owner-scoped query can retrieve
\* ------------------------------------------------------------------------
\* C29: a query without documentId retrieves only chunks of documents whose
\* status is 'completed': the results of its search name no document that
\* is failed (or still being processed).
C29_OnlyCompletedRetrievable ==
    [][\A k \in QueryIds :
          (qry[k].pc = "searchPoints" /\ qry'[k].pc = "generate"
           /\ qry[k].documentId = NoDoc) =>
              \A j \in 1..Len(qry'[k].results) :
                  docs[qry'[k].results[j].documentId].status = "completed"]_vars

\* ------------------------------------------------------------------------
\* The terminal status of one invocation
\* ------------------------------------------------------------------------
\* the status updates invocation i issued, in order
StatusCallsIssued(i) ==
    SelectSeq(ing[i].log, LAMBDA c : c.call \in StatusCalls)

\* no update to 'failed' is issued after an update to 'completed'
CompletedStays(i) ==
    \A a, b \in 1..Len(StatusCallsIssued(i)) :
        (a < b /\ StatusCallsIssued(i)[a].call = "status:completed")
            => StatusCallsIssued(i)[b].call # "status:failed"

\* the last status update invocation i issued
LastStatusIssued(i) ==
    IF StatusCallsIssued(i) = <<>> THEN "none"
    ELSE StatusCallsIssued(i)[Len(StatusCallsIssued(i))].call

\* C30: within one invocation of ingestDocument no update to 'failed' is
\* issued after an update to 'completed', whatever fails afterwards, and the
\* status the invocation returns is the one of the last update it issued.
C30_TerminalStatusIsFinal ==
    \A i \in IngestIds :
        /\ CompletedStays(i)
        /\ ing[i].pc = "done" =>
              StatusCallOf(ing[i].result.status) = LastStatusIssued(i)

\* an invocation issued 'completed', failed to record the usage event, and
\* returned 'completed'
C30_Witness ==
    \E i \in IngestIds :
        /\ ing[i].pc = "done"
        /\ Call("status:completed", TRUE) \in {ing[i].log[j] : j \in 1..Len(ing[i].log)}
        /\ ing[i].log[Len(ing[i].log)] = Call("insert:usage_tracking", FALSE)
        /\ ing[i].result.status = "completed"
        /\ docs[ing[i].doc].status = "completed"

====
